---- MODULE Spec2Model ----
(***************************************************************************)
(* Model of the ratings collector of run-mcp                               *)
(* (internal/scanner/collector.go): the producer (Submit), the debounce    *)
(* timer, SetClient, FlushAndStop, the delivery workers, the scan pollers  *)
(* and ApplyToSummary.                                                     *)
(*                                                                         *)
(* Every critical section of rc.mu is one action: no section blocks while  *)
(* it holds the mutex (flushLocked sends with select/default), so a        *)
(* section is atomic for every observer that also takes the mutex.         *)
(* A Go panic (send on a closed channel, close of a closed channel) ends   *)
(* the process: it is recorded in panicked and every action is disabled.   *)
(***************************************************************************)
EXTENDS Integers, Sequences, FiniteSets, TLC

(***************************************************************************)
(* Program constants (collector.go:15-27).  Durations are in nanoseconds,  *)
(* the unit of time.Duration.                                              *)
(***************************************************************************)
backoffBase == 250000000
maxAttempts == 3
batchSize == 25
workerCount == 2
channelSize == 8
serverPolicyUnknown == "unknown"

(***************************************************************************)
(* Bounds of the model.                                                    *)
(***************************************************************************)
MaxStops == 2        \* FlushAndStop calls made by the callers
MaxSetClient == 1    \* SetClient calls made by the callers
MaxCallbacks == 1    \* debounce callbacks started and not yet run
MaxScans == 1        \* batches the server answers with 202 Accepted
MaxOverrun == 4      \* quarter seconds followed after the poller's deadline
MaxApply == 1        \* ApplyToSummary calls

(***************************************************************************)
(* Values.                                                                 *)
(***************************************************************************)
NoPolicy == "<absent>"   \* the server has no entry in rc.serverPolicy
NoLink == <<>>           \* the server has no entry in rc.serverLinks
NoRating == "<nil>"      \* the server has no entry in rc.serverRating

Kinds == {"url", "purl", "oci", "repo"}

\* apigen.TargetIdentifier
Id(k, v) == [Kind |-> k, Value |-> v]

\* one server declaration found by the scan: its name and the identifiers
\* ExtractIdentifiers derives from its configuration
Decl(name, ids) == [name |-> name, ids |-> ids]

\* a declaration that yields the four kinds of identifier, all with value n
Four(n) == <<Id("url", ToString(n)), Id("purl", ToString(n)),
             Id("oci", ToString(n)), Id("repo", ToString(n))>>

Range(s) == {s[i] : i \in 1..Len(s)}

(***************************************************************************)
(* int64 arithmetic of time.Duration: a value is its eight bytes, least    *)
(* significant first, in two's complement; a product keeps the low 64 bits *)
(* as Go's does.                                                           *)
(***************************************************************************)
RECURSIVE Shr8(_, _)
Shr8(n, k) == IF k = 0 THEN n ELSE Shr8(n \div 256, k - 1)

\* the int64 of a natural number below 2^31
ToInt64(n) == [i \in 1..8 |-> Shr8(n, i - 1) % 256]

RECURSIVE Column(_, _, _, _)
Column(a, b, k, i) ==
  IF i > k THEN 0
  ELSE (IF i <= Len(a) /\ k + 1 - i <= Len(b) THEN a[i] * b[k + 1 - i] ELSE 0)
       + Column(a, b, k, i + 1)

RECURSIVE MulFrom(_, _, _, _, _)
MulFrom(a, b, k, carry, width) ==
  IF k > width THEN << >>
  ELSE LET t == Column(a, b, k, 1) + carry
       IN <<t % 256>> \o MulFrom(a, b, k + 1, t \div 256, width)

\* a * b in int64
Mul64(a, b) == MulFrom(a, b, 1, 0, 8)

IsNegative(x) == x[8] >= 128
IsZero(x) == \A i \in 1..8 : x[i] = 0

\* time.Second
Second == ToInt64(1000000000)

\* the rating_url the server returns for an identifier
ratingUrl(t) == <<"/ratings/", t.Kind, t.Value>>

(***************************************************************************)
(* The answers of client.SubmitBatchRatings.                               *)
(* Retry-After is parsed by strconv.Atoi into an int: absent (0), 2, and   *)
(* 9223372037, the least number of seconds whose nanoseconds exceed int64. *)
(***************************************************************************)
RetryAfterInputs == {ToInt64(0), ToInt64(2), <<5, 125, 193, 37, 2, 0, 0, 0>>}

Answer(kind, rated, retryAfter, status) ==
  [kind |-> kind, rated |-> rated, retryAfter |-> retryAfter, status |-> status]

Answers ==
  {Answer("ok", r, << >>, 200) : r \in BOOLEAN}
  \cup {Answer("accepted", FALSE, << >>, 202)}
  \cup {Answer("ratelimited", FALSE, v, 429) : v \in RetryAfterInputs}
  \cup {Answer("remote", FALSE, << >>, st) : st \in {403, 503}}
  \cup {Answer("other", FALSE, << >>, 0)}

(***************************************************************************)
(* Scenarios: what the collector's environment does in one run.            *)
(*   work        the declarations the scan finds, in the order scanFile    *)
(*               submits them                                              *)
(*   client      the client given to NewRatingsCollector ("nil": none)     *)
(*   setClients  the SetClient calls made                                  *)
(*   stops       the FlushAndStop calls made                               *)
(*   applies     the ApplyToSummary calls made                             *)
(*   answers     the answers the ratings API gives to a batch              *)
(*   notifiers   WithStageNotifiers is called before the scan              *)
(*   cancels     the parent of the collector's context cancels it          *)
(* The storage allowlist holds the entries "ok" and "c#1".                 *)
(***************************************************************************)
\* the commands "allowlist add TYPE NAME HASH" run before the scan
AllowlistAdds ==
  << [entityType |-> "server", name |-> "ok", hash |-> "ok"],
     [entityType |-> "server", name |-> "c", hash |-> "c#1"] >>

\* Verifier.AddToAllowlist(entityType, name, hash), on the allowlist of the
\* storage: the hash is appended to the entries of the type, the name is
\* only logged
AddToAllowlist(allowlist, entityType, name, hash) ==
  [allowlist EXCEPT ![entityType] = Append(@, hash)]

RECURSIVE Added(_, _)
Added(allowlist, cmds) ==
  IF cmds = << >> THEN allowlist
  ELSE Added(AddToAllowlist(allowlist, Head(cmds).entityType, Head(cmds).name,
                            Head(cmds).hash),
             Tail(cmds))

\* st.Data.Allowlist of the storage the collector is given
StoredAllowlist == Added([t \in {"server"} |-> << >>], AllowlistAdds)

\* st.Data.Allowlist["server"]
Allowlist == Range(StoredAllowlist["server"])

Scenario(work, cl, setClients, nstops, applies, answers, notif) ==
  [work |-> work, client |-> cl, setClients |-> setClients, stops |-> nstops,
   applies |-> applies, answers |-> answers, notifiers |-> notif,
   cancels |-> FALSE]

OkEmpty == Answer("ok", FALSE, << >>, 200)
OkRated == Answer("ok", TRUE, << >>, 200)
Accepted == Answer("accepted", FALSE, << >>, 202)

\* the client arrives late, a server is declared twice and shutdown is
\* requested more than once
Lifecycle ==
  Scenario(<< Decl("a", <<Id("purl", "1"), Id("repo", "1")>>),
              Decl("b", <<Id("purl", "2")>>),
              Decl("a", <<Id("purl", "1"), Id("repo", "1")>>) >>,
           "nil", MaxSetClient, MaxStops, 0, {OkEmpty}, FALSE)

\* one batch, every answer
Delivery ==
  Scenario(<< Decl("a", <<Id("purl", "1")>>) >>,
           "set", 0, 1, 0, Answers \ {Accepted}, FALSE)

\* three identifiers, answered 202; the summary is taken once
Scan ==
  Scenario(<< Decl("a", <<Id("purl", "1"), Id("repo", "1")>>),
              Decl("b", <<Id("purl", "1")>>),
              Decl("c", <<Id("purl", "2")>>) >>,
           "set", 0, 1, MaxApply, {Accepted}, TRUE)

\* servers that share identifiers, an allowlisted server and a server
\* without identifiers
FanOut ==
  Scenario(<< Decl("a", <<Id("purl", "1"), Id("repo", "1")>>),
              Decl("b", <<Id("purl", "1")>>),
              Decl("ok", <<Id("purl", "1")>>),
              Decl("c", <<Id("purl", "2")>>),
              Decl("d", << >>) >>,
           "set", 0, 1, 0, {OkEmpty, OkRated}, TRUE)

\* 1 + 6 * 4 = batchSize identifiers, then four more; the API does not answer
Threshold ==
  Scenario(<< Decl("a", <<Id("purl", "1")>>) >>
             \o [n \in 1..7 |-> Decl("b", Four(n + 1))],
           "set", 0, 1, 0, {}, FALSE)

\* more single-identifier declarations than the queue has room for; the API
\* does not answer
Overflow ==
  Scenario([n \in 1..(channelSize + 1) |-> Decl("a", <<Id("purl", ToString(n))>>)],
           "set", 0, 1, 0, {}, FALSE)

\* one batch, answered with retryable errors or 202, while the user
\* interrupts the scan
Interrupt ==
  [Scenario(<< Decl("a", <<Id("purl", "1")>>) >>,
            "set", 0, 1, 0,
            {Answer("ratelimited", FALSE, ToInt64(2), 429),
             Answer("remote", FALSE, << >>, 503), Accepted}, FALSE)
     EXCEPT !.cancels = TRUE]

Scenarios == {Lifecycle, Delivery, Scan, FanOut, Threshold, Overflow, Interrupt}

Servers == UNION {{c.work[i].name : i \in 1..Len(c.work)} : c \in Scenarios}
AllIds == UNION {UNION {Range(c.work[i].ids) : i \in 1..Len(c.work)} : c \in Scenarios}

\* makeKey: string(t.Kind) + "|" + t.Value
makeKey(t) == <<t.Kind, "|", t.Value>>

Keys == {makeKey(t) : t \in AllIds}

Stages == {"submitted", "processing", "received"}

VARIABLES
  scenario,      \* what the environment does in this run
  next,          \* position in scenario.work of the next call of Submit
  client,        \* rc.client: "nil" or "set"
  seen,          \* rc.seen: kind -> set of values
  curBatch,      \* rc.curBatch
  timer,         \* rc.timer: [set: rc.timer != nil, armed: it will fire,
                 \* stale: armed timers that rc.timer no longer refers to]
  callbacks,     \* debounce callbacks started that have not run flush yet
  idToServers,   \* rc.idToServers: key -> sequence of server names
  serverPolicy,  \* rc.serverPolicy
  serverLinks,   \* rc.serverLinks
  serverRating,  \* rc.serverRating
  sendCh,        \* the batches buffered in rc.sendCh
  closed,        \* rc.sendCh is closed
  workers,       \* the delivery goroutines of startWorkers
  pollers,       \* the running pollAndApply goroutines
  stops,         \* the position of each FlushAndStop call
  summary,       \* the ScanSummary handed to ApplyToSummary
  notified,      \* stage -> server -> notifier goroutines started
  notifiers,     \* WithStageNotifiers has installed the three callbacks
  panicked,      \* "" or the message of the panic that ended the process
  cancelled,     \* rc.ctx has been cancelled by its parent
  waiting,       \* the callers that wait for a stage notifier to return
  poll,          \* one call of client.WaitForScanCompletion
  api,           \* the API client: one run of NewClient and the calls made on it
  mcp,           \* the MCPScanner and its ScanResult: see ScanSpec
  ident,         \* the IdentifierExtractor at work on one server: see UrlSpec
  tui,           \* the Model of the terminal interface: see TuiSpec
  hist           \* history: counters and sets the properties refer to

vars == <<api, mcp, ident, tui, scenario, next, client, seen, curBatch, timer, callbacks, idToServers,
          serverPolicy, serverLinks, serverRating, sendCh, closed, workers,
          pollers, stops, summary, notified, notifiers, panicked, cancelled,
          waiting, poll, hist>>

(***************************************************************************)
(* NewRatingsCollector: empty maps, an open queue of channelSize batches   *)
(* and workerCount workers waiting on it.  The client may be given at      *)
(* construction or attached later by SetClient.                            *)
(***************************************************************************)
\* no call of WaitForScanCompletion is being followed
PollIdle == [pc |-> "idle"]

IdleWorker == [pc |-> "recv", batch |-> << >>, posts |-> 0, backoff |-> 0,
               slept |-> << >>, retry |-> FALSE]

Collector(sc) ==
  /\ scenario = sc
  /\ next = 1
  /\ client = scenario.client
  /\ seen = [k \in Kinds |-> {}]
  /\ curBatch = << >>
  /\ timer = [set |-> FALSE, armed |-> FALSE, stale |-> 0]
  /\ callbacks = 0
  /\ idToServers = [k \in Keys |-> << >>]
  /\ serverPolicy = [s \in Servers |-> NoPolicy]
  /\ serverLinks = [s \in Servers |-> NoLink]
  /\ serverRating = [s \in Servers |-> NoRating]
  /\ sendCh = << >>
  /\ closed = FALSE
  /\ workers = [w \in 1..workerCount |-> IdleWorker]
  /\ pollers = {}
  /\ stops = [i \in 1..MaxStops |-> "idle"]
  /\ summary = [s \in Servers |-> [LocalPolicy |-> "", Rating |-> NoRating]]
  /\ notified = [g \in Stages |-> [s \in Servers |-> 0]]
  /\ notifiers = scenario.notifiers
  /\ panicked = ""
  /\ cancelled = FALSE
  /\ waiting = {}
  /\ hist = [closes |-> 0, drops |-> 0, scans |-> 0, applies |-> 0, summaryAt |-> "",
             setClients |-> 0,
             extracted |-> [k \in Keys |-> {}],
             eligible |-> [k \in Keys |-> {}],
             flushed |-> << >>, completed |-> {}]

\* the API client before NewClient is called: the zero Client
NoIdentity == [OrgUUID |-> "", HostUUID |-> "", Anonymous |-> FALSE]

ApiIdle ==
  [skipHealthProbe |-> FALSE, defaultIdentity |-> NoIdentity, ctor |-> "new",
   ctorErr |-> "", healthOnce |-> "new", healthStatus |-> "", healthErr |-> "",
   forceOffline |-> FALSE, probes |-> 0, calls |-> 0, ops |-> 0,
   callers |-> << >>,
   last |-> [ctx |-> [ok |-> FALSE, id |-> NoIdentity], err |-> "",
             header |-> {}, sent |-> FALSE]]

\* what the other parts of the program are while the collector runs
\* NewMCPScanner(targets, storageFile), before any target is set
McpIdle ==
  [targets |-> << >>, target |-> 1, walking |-> FALSE, stream |-> {}, seenFiles |-> {},
   events |-> << >>, Files |-> << >>, Servers |-> << >>, SecretFindings |-> << >>,
   pc |-> "idle", err |-> "", returned |-> << >>]

\* NewIdentifierExtractor(), before a server is given to it
IdentIdle == [cfg |-> [url |-> << >>, endpoint |-> << >>, baseUrl |-> << >>], out |-> << >>, pc |-> "idle"]

\* NewModel(deadline, nil, resultsCh, fileCh), before the program is run;
\* taken counts the messages the model has received from fileCh
TuiIdle ==
  [scanCompleted |-> FALSE, filesScanned |-> 0, totalFiles |-> 0, seenStarts |-> {},
   fileScanEvents |-> << >>, taken |-> 0, pc |-> "idle"]

Aside == api = ApiIdle /\ mcp = McpIdle /\ ident = IdentIdle /\ tui = TuiIdle

Init == \E sc \in Scenarios : Collector(sc) /\ poll = PollIdle /\ Aside

\* localAllowlisted(rc.storage, serverName, serverName)
localAllowlisted(serverName) == serverName \in Allowlist

(***************************************************************************)
(* flushLocked.  batch is rc.curBatch as the caller left it.  The select   *)
(* sends when the queue has room and takes the default branch when it is   *)
(* full; a send on a closed channel panics, also inside a select.          *)
(* Result: the new pending batch, the new queue, what happened.            *)
(***************************************************************************)
flushLocked(batch, queue, isClosed) ==
  IF Len(batch) = 0
    THEN [curBatch |-> batch, sendCh |-> queue, did |-> "nothing", sent |-> << >>]
    ELSE IF isClosed
      THEN [curBatch |-> << >>, sendCh |-> queue, did |-> "panic", sent |-> batch]
      ELSE IF Len(queue) < channelSize
        THEN [curBatch |-> << >>, sendCh |-> Append(queue, batch),
              did |-> "sent", sent |-> batch]
        ELSE [curBatch |-> << >>, sendCh |-> queue, did |-> "dropped", sent |-> batch]

\* the effect of a flush on the queue, the pending batch and the process
ApplyFlush(f) ==
  /\ curBatch' = f.curBatch
  /\ sendCh' = f.sendCh
  /\ panicked' = IF f.did = "panic" THEN "send on closed channel" ELSE panicked

HistFlush(h, f) ==
  [h EXCEPT !.drops = IF f.did = "dropped" THEN @ + 1 ELSE @,
            !.flushed = IF f.did = "nothing" THEN @ ELSE f.sent]

(***************************************************************************)
(* The loop of Submit over the extracted identifiers (collector.go:144):   *)
(* an identifier seen before is only mapped to the server, a new one is    *)
(* also recorded in seen and appended to the pending batch.                *)
(***************************************************************************)
\* mutant: an identifier seen before is skipped without mapping the server
RECURSIVE SubmitIds_NoFanOut(_, _, _, _)
SubmitIds_NoFanOut(serverName, ids, i, st) ==
  IF i > Len(ids) THEN st
  ELSE LET id == ids[i]
           k == makeKey(id)
       IN IF id.Kind = "" \/ id.Value = "" \/ id.Value \in st.seen[id.Kind]
            THEN SubmitIds_NoFanOut(serverName, ids, i + 1, st)
            ELSE SubmitIds_NoFanOut(serverName, ids, i + 1,
                   [seen |-> [st.seen EXCEPT ![id.Kind] = @ \cup {id.Value}],
                    curBatch |-> Append(st.curBatch, id),
                    idToServers |-> [st.idToServers EXCEPT
                                       ![k] = Append(@, serverName)]])

RECURSIVE SubmitIds(_, _, _, _)
SubmitIds(serverName, ids, i, st) ==
  IF i > Len(ids) THEN st
  ELSE LET id == ids[i]
           k == makeKey(id)
           mapped == [st.idToServers EXCEPT ![k] = Append(@, serverName)]
       IN IF id.Kind = "" \/ id.Value = ""
            THEN SubmitIds(serverName, ids, i + 1, st)
            ELSE IF id.Value \in st.seen[id.Kind]
              THEN SubmitIds(serverName, ids, i + 1,
                             [st EXCEPT !.idToServers = mapped])
              ELSE SubmitIds(serverName, ids, i + 1,
                             [seen |-> [st.seen EXCEPT ![id.Kind] = @ \cup {id.Value}],
                              curBatch |-> Append(st.curBatch, id),
                              idToServers |-> mapped])

(***************************************************************************)
(* The debounce timer handle rc.timer, as Submit and FlushAndStop use it   *)
(* under rc.mu.                                                            *)
(***************************************************************************)
\* mutant: Submit makes a timer with time.AfterFunc on every call
armTimer_Fresh(t) ==
  [set |-> TRUE, armed |-> TRUE,
   stale |-> IF t.armed THEN t.stale + 1 ELSE t.stale]

\* Submit: time.AfterFunc when rc.timer is nil, else rc.timer.Reset, which
\* arms the timer the handle refers to, fired or not
armTimer(t) ==
  IF ~t.set THEN [set |-> TRUE, armed |-> TRUE, stale |-> t.stale]
            ELSE [t EXCEPT !.armed = TRUE]

\* FlushAndStop: rc.timer.Stop() and rc.timer = nil when the handle is set
stopTimer(t) ==
  IF t.set THEN [set |-> FALSE, armed |-> FALSE, stale |-> t.stale] ELSE t

\* go rc.notify<Stage>(name) for every name of the sequence
RECURSIVE Notify(_, _, _)
Notify(n, stage, names) ==
  IF names = << >> THEN n
  ELSE Notify([n EXCEPT ![stage][Head(names)] = @ + 1], stage, Tail(names))

\* mutant: the notifier is called in the goroutine of its caller, which
\* waits for it to return
goNotify_Inline(who, before, after) ==
  IF after # before THEN waiting \cup {who} ELSE waiting

\* go rc.notify<Stage>(name): the notifier runs in a goroutine of its own and
\* its caller who goes on at once, whether the notifier returns or not
goNotify(who, before, after) == waiting

\* the goroutines that call notifiers: the scan, a worker, a poller
Scanner == <<"scan", 0>>
WorkerNo(w) == <<"worker", w>>
APoller == <<"poller", 0>>

Running == panicked = ""

(***************************************************************************)
(* Submit(serverName, serverConfig) for the next declaration of the scan.  *)
(***************************************************************************)
\* history: the servers passed to Submit with each identifier
Extracted(ex, d) ==
  [k \in Keys |-> IF k \in {makeKey(t) : t \in Range(d.ids)}
                    THEN ex[k] \cup {d.name} ELSE ex[k]]

\* mutant: the allowlisted server is also mapped to its identifiers
SubmitAllowlisted_Mapped(d) ==
  /\ localAllowlisted(d.name)
  /\ serverPolicy' = [serverPolicy EXCEPT ![d.name] = "allowed"]
  /\ idToServers' = [k \in Keys |->
                       IF k \in {makeKey(t) : t \in Range(d.ids)}
                         THEN Append(idToServers[k], d.name)
                         ELSE idToServers[k]]
  /\ hist' = [hist EXCEPT !.extracted = Extracted(@, d)]
  /\ UNCHANGED <<seen, curBatch, timer, sendCh, notified, panicked>>

SubmitAllowlisted(d) ==
  /\ localAllowlisted(d.name)
  /\ serverPolicy' = [serverPolicy EXCEPT ![d.name] = "allowed"]
  /\ hist' = [hist EXCEPT !.extracted = Extracted(@, d)]
  /\ UNCHANGED <<seen, curBatch, timer, idToServers, sendCh, notified, panicked>>

\* mutant: without a client the identifiers are still put in the pending batch
SubmitUnknown_Batched(d) ==
  /\ ~localAllowlisted(d.name)
  /\ client = "nil" \/ Len(d.ids) = 0
  /\ serverPolicy' = [serverPolicy EXCEPT
                        ![d.name] = IF @ = NoPolicy THEN serverPolicyUnknown ELSE @]
  /\ curBatch' = curBatch \o d.ids
  /\ hist' = [hist EXCEPT !.extracted = Extracted(@, d)]
  /\ UNCHANGED <<seen, timer, idToServers, sendCh, notified, panicked>>

\* rc.client == nil, or no identifier extracted
SubmitUnknown(d) ==
  /\ ~localAllowlisted(d.name)
  /\ client = "nil" \/ Len(d.ids) = 0
  /\ serverPolicy' = [serverPolicy EXCEPT
                        ![d.name] = IF @ = NoPolicy THEN serverPolicyUnknown ELSE @]
  /\ hist' = [hist EXCEPT !.extracted = Extracted(@, d)]
  /\ UNCHANGED <<seen, curBatch, timer, idToServers, sendCh, notified, panicked>>

SubmitIdentifiers(d) ==
  /\ ~localAllowlisted(d.name)
  /\ client # "nil"
  /\ Len(d.ids) # 0
  /\ LET st == SubmitIds(d.name, d.ids, 1,
                         [seen |-> seen, curBatch |-> curBatch,
                          idToServers |-> idToServers])
         f == IF Len(st.curBatch) >= batchSize
                THEN flushLocked(st.curBatch, sendCh, closed)
                ELSE [curBatch |-> st.curBatch, sendCh |-> sendCh,
                      did |-> "nothing", sent |-> << >>]
     IN /\ seen' = st.seen
        /\ idToServers' = st.idToServers
        /\ notified' = IF notifiers THEN Notify(notified, "submitted", <<d.name>>)
                                    ELSE notified
        /\ timer' = armTimer(timer)
        /\ ApplyFlush(f)
        /\ hist' = [HistFlush(hist, f) EXCEPT
                      !.extracted = Extracted(@, d),
                      !.eligible = Extracted(@, d)]
  /\ UNCHANGED serverPolicy

Submit ==
  /\ Running
  /\ Scanner \notin waiting
  /\ next <= Len(scenario.work)
  /\ next' = next + 1
  /\ \/ SubmitAllowlisted(scenario.work[next])
     \/ SubmitUnknown(scenario.work[next])
     \/ SubmitIdentifiers(scenario.work[next])
  /\ waiting' = goNotify(Scanner, notified, notified')
  /\ UNCHANGED <<api, mcp, ident, tui, scenario, poll, cancelled, client, callbacks, serverLinks, serverRating, closed,
                 workers, pollers, stops, summary, notifiers>>

(***************************************************************************)
(* The debounce timer.  When it fires, the runtime starts the callback     *)
(* func() { rc.flush() } in a goroutine of its own; the callback then      *)
(* waits for rc.mu like every other caller.                                *)
(***************************************************************************)
TimerFire ==
  /\ Running
  /\ callbacks < MaxCallbacks
  /\ \E fired \in {"current" : x \in {y \in {1} : timer.armed}}
                  \cup {"stale" : x \in {y \in {1} : timer.stale > 0}} :
       timer' = IF fired = "current" THEN [timer EXCEPT !.armed = FALSE]
                                     ELSE [timer EXCEPT !.stale = @ - 1]
  /\ callbacks' = callbacks + 1
  /\ UNCHANGED <<api, mcp, ident, tui, scenario, poll, cancelled, waiting, next, client, seen, curBatch, idToServers, serverPolicy,
                 serverLinks, serverRating, sendCh, closed, workers, pollers,
                 stops, summary, notified, notifiers, panicked, hist>>

\* flush: the callback holds rc.mu and runs flushLocked
flush ==
  /\ Running
  /\ callbacks > 0
  /\ callbacks' = callbacks - 1
  /\ LET f == flushLocked(curBatch, sendCh, closed)
     IN /\ ApplyFlush(f)
        /\ hist' = HistFlush(hist, f)
  /\ UNCHANGED <<api, mcp, ident, tui, scenario, poll, cancelled, waiting, next, client, seen, timer, idToServers, serverPolicy,
                 serverLinks, serverRating, closed, workers, pollers, stops,
                 summary, notified, notifiers>>

(***************************************************************************)
(* SetClient(client): attach the client and flush the pending batch, under *)
(* rc.mu.                                                                  *)
(***************************************************************************)
SetClient ==
  /\ Running
  /\ hist.setClients < scenario.setClients
  /\ client' = "set"
  /\ LET f == flushLocked(curBatch, sendCh, closed)
     IN /\ ApplyFlush(f)
        /\ hist' = [HistFlush(hist, f) EXCEPT !.setClients = @ + 1]
  /\ UNCHANGED <<api, mcp, ident, tui, scenario, poll, cancelled, waiting, next, seen, timer, callbacks, idToServers, serverPolicy,
                 serverLinks, serverRating, closed, workers, pollers, stops,
                 summary, notified, notifiers>>

(***************************************************************************)
(* FlushAndStop, in its three steps: the critical section (stop the timer, *)
(* flushLocked), close(rc.sendCh), and the return from rc.wg.Wait().       *)
(***************************************************************************)
StopFlush(i) ==
  /\ Running
  /\ stops[i] = "idle"
  /\ i <= scenario.stops
  /\ i > 1 => stops[i - 1] # "idle"   \* the calls are numbered as they arrive
  /\ stops' = [stops EXCEPT ![i] = "flushed"]
  /\ timer' = stopTimer(timer)
  /\ LET f == flushLocked(curBatch, sendCh, closed)
     IN /\ ApplyFlush(f)
        /\ hist' = HistFlush(hist, f)
  /\ UNCHANGED <<api, mcp, ident, tui, scenario, poll, cancelled, waiting, next, client, seen, callbacks, idToServers, serverPolicy,
                 serverLinks, serverRating, closed, workers, pollers, summary,
                 notified, notifiers>>

\* close(rc.sendCh): closing a closed channel panics
StopClose(i) ==
  /\ Running
  /\ stops[i] = "flushed"
  /\ stops' = [stops EXCEPT ![i] = "waiting"]
  /\ closed' = TRUE
  /\ panicked' = IF closed THEN "close of closed channel" ELSE panicked
  /\ hist' = [hist EXCEPT !.closes = @ + 1]
  /\ UNCHANGED <<api, mcp, ident, tui, scenario, poll, cancelled, waiting, next, client, seen, curBatch, timer, callbacks,
                 idToServers, serverPolicy, serverLinks, serverRating, sendCh,
                 workers, pollers, summary, notified, notifiers>>

\* rc.wg.Wait() returns when every worker has called wg.Done()
StopReturn(i) ==
  /\ Running
  /\ stops[i] = "waiting"
  /\ \A w \in 1..workerCount : workers[w].pc = "done"
  /\ stops' = [stops EXCEPT ![i] = "returned"]
  /\ UNCHANGED <<api, mcp, ident, tui, scenario, poll, cancelled, waiting, next, client, seen, curBatch, timer, callbacks,
                 idToServers, serverPolicy, serverLinks, serverRating, sendCh,
                 closed, workers, pollers, summary, notified, notifiers,
                 panicked, hist>>

FlushAndStop == \E i \in 1..MaxStops : StopFlush(i) \/ StopClose(i) \/ StopReturn(i)

\* mutant: every RemoteError is retried, whatever its status
handleRetryableError_AnyRemote(err, backoff) ==
  IF err.kind = "ratelimited"
    THEN LET d == Mul64(err.retryAfter, Second)
         IN [retry |-> TRUE,
             slept |-> IF IsNegative(d) \/ IsZero(d) THEN ToInt64(backoff) ELSE d,
             backoff |-> backoff]
    ELSE IF err.kind = "remote"
      THEN [retry |-> TRUE, slept |-> ToInt64(backoff), backoff |-> backoff * 2]
      ELSE [retry |-> FALSE, slept |-> << >>, backoff |-> backoff]

\* handleRetryableError: [retry, slept, backoff]
handleRetryableError(err, backoff) ==
  IF err.kind = "ratelimited"
    THEN LET d == Mul64(err.retryAfter, Second)
         IN [retry |-> TRUE,
             slept |-> IF IsNegative(d) \/ IsZero(d) THEN ToInt64(backoff) ELSE d,
             backoff |-> backoff]
    ELSE IF err.kind = "remote" /\ err.status >= 500
      THEN [retry |-> TRUE, slept |-> ToInt64(backoff), backoff |-> backoff * 2]
      ELSE [retry |-> FALSE, slept |-> << >>, backoff |-> backoff]

\* applyRatings: every server mapped to the identifier of an item gets its url
RECURSIVE applyRatings(_, _)
applyRatings(links, items) ==
  IF items = << >> THEN links
  ELSE LET item == Head(items)
           names == Range(idToServers[makeKey(item.Identifier)])
       IN applyRatings([s \in Servers |->
                          IF s \in names THEN item.RatingUrl ELSE links[s]],
                       Tail(items))

\* the servers of a batch, identifier by identifier, as the loops visit them
RECURSIVE serversOf(_)
serversOf(batch) ==
  IF batch = << >> THEN << >>
  ELSE idToServers[makeKey(Head(batch))] \o serversOf(Tail(batch))

(***************************************************************************)
(* A worker of startWorkers: for batch := range rc.sendCh, deliverBatch.   *)
(***************************************************************************)
\* the receive, and the entry of deliverBatch (collector.go:201-206)
WorkerTake(w) ==
  /\ workers[w].pc = "recv"
  /\ Len(sendCh) > 0
  /\ sendCh' = Tail(sendCh)
  /\ workers' = [workers EXCEPT ![w] =
       IF client = "nil" \/ Len(Head(sendCh)) = 0
         THEN IdleWorker
         ELSE [IdleWorker EXCEPT !.pc = "post", !.batch = Head(sendCh),
                                 !.backoff = backoffBase]]
  /\ UNCHANGED <<serverPolicy, serverLinks, pollers, notified, hist>>

\* the range loop ends when the channel is closed and empty; wg.Done()
WorkerExit(w) ==
  /\ workers[w].pc = "recv"
  /\ Len(sendCh) = 0
  /\ closed
  /\ workers' = [workers EXCEPT ![w].pc = "done"]
  /\ UNCHANGED <<sendCh, serverPolicy, serverLinks, pollers, notified, hist>>

\* the error of a request whose context is cancelled
CtxCanceled == Answer("other", FALSE, << >>, 0)

\* one iteration of the loop of deliverBatch: the POST and its answer a
WorkerPost(w, a) ==
  /\ workers[w].pc = "post"
  /\ LET me == workers[w]
         posts == me.posts + 1
         h == handleRetryableError(a, me.backoff)
         items == IF a.rated
                    THEN [i \in 1..Len(me.batch) |->
                            [Identifier |-> me.batch[i],
                             RatingUrl |-> ratingUrl(me.batch[i])]]
                    ELSE << >>
     IN CASE a.kind = "ok" ->
               \* onImmediateResponse: applyRatings under rc.mu
               /\ serverLinks' = applyRatings(serverLinks, items)
               /\ workers' = [workers EXCEPT ![w] =
                    [me EXCEPT !.pc = "received", !.posts = posts]]
               /\ UNCHANGED <<notified, hist>>
          [] a.kind = "accepted" ->
               \* onAccepted: notifyProcessingForBatch reads rc.idToServers
               /\ hist.scans < MaxScans
               /\ notified' = IF notifiers
                                THEN Notify(notified, "processing", serversOf(me.batch))
                                ELSE notified
               /\ workers' = [workers EXCEPT ![w] =
                    [me EXCEPT !.pc = "accepted", !.posts = posts]]
               /\ hist' = [hist EXCEPT !.scans = @ + 1]
               /\ UNCHANGED serverLinks
          [] OTHER ->
               \* handleRetryableError goes to sleep, or the batch is dropped
               /\ workers' = [workers EXCEPT ![w] =
                    [me EXCEPT !.pc = IF h.retry THEN "sleep" ELSE "drop",
                               !.posts = posts, !.backoff = h.backoff,
                               !.slept = h.slept, !.retry = h.retry]]
               /\ UNCHANGED <<serverLinks, notified, hist>>
  /\ UNCHANGED <<sendCh, serverPolicy, pollers>>

\* time.Sleep returns when its duration has passed, and the loop goes on
\* while it has iterations left, else the batch is dropped
WorkerWake(w) ==
  /\ workers[w].pc = "sleep"
  /\ workers' = [workers EXCEPT ![w].pc =
       IF workers[w].posts < maxAttempts THEN "post" ELSE "drop"]
  /\ UNCHANGED <<sendCh, serverPolicy, serverLinks, pollers, notified, hist>>

\* logrus.Debug("... dropping"): deliverBatch returns without a result
WorkerDrop(w) ==
  /\ workers[w].pc = "drop"
  /\ workers' = [workers EXCEPT ![w] = IdleWorker]
  /\ UNCHANGED <<sendCh, serverPolicy, serverLinks, pollers, notified, hist>>

\* mutant: only the servers of the first identifier of the batch are marked
markServersPending_FirstOnly(policy, batch) ==
  [s \in Servers |->
     IF s \in Range(idToServers[makeKey(batch[1])]) THEN "pending" ELSE policy[s]]

\* markServersPending: every server of every identifier of the batch
markServersPending(policy, batch) ==
  [s \in Servers |->
     IF \E i \in 1..Len(batch) : s \in Range(idToServers[makeKey(batch[i])])
       THEN "pending" ELSE policy[s]]

\* onAccepted, continued: markServersPending under rc.mu, go rc.pollAndApply
WorkerMarkPending(w) ==
  /\ workers[w].pc = "accepted"
  /\ serverPolicy' = markServersPending(serverPolicy, workers[w].batch)
  /\ pollers' = pollers \cup {workers[w].batch}
  /\ workers' = [workers EXCEPT ![w] = IdleWorker]
  /\ UNCHANGED <<sendCh, serverLinks, notified, hist>>

\* onImmediateResponse, continued: notifyReceivedForBatch
WorkerNotifyReceived(w) ==
  /\ workers[w].pc = "received"
  /\ notified' = IF notifiers
                   THEN Notify(notified, "received", serversOf(workers[w].batch))
                   ELSE notified
  /\ workers' = [workers EXCEPT ![w] = IdleWorker]
  /\ UNCHANGED <<sendCh, serverPolicy, serverLinks, pollers, hist>>

Worker ==
  /\ Running
  /\ \E w \in 1..workerCount :
       /\ WorkerNo(w) \notin waiting
       /\ \/ WorkerTake(w)
          \/ WorkerExit(w)
          \/ \E a \in IF cancelled THEN {CtxCanceled} ELSE scenario.answers :
               WorkerPost(w, a)
          \/ WorkerWake(w)
          \/ WorkerDrop(w)
          \/ WorkerMarkPending(w)
          \/ WorkerNotifyReceived(w)
       /\ waiting' = goNotify(WorkerNo(w), notified, notified')
  /\ UNCHANGED <<api, mcp, ident, tui, scenario, poll, cancelled, next, client, seen, curBatch, timer, callbacks,
                 idToServers, serverRating, closed, stops, summary, notifiers,
                 panicked>>

(***************************************************************************)
(* pollAndApply(scanID): WaitForScanCompletion ends with an error, or with *)
(* the ratings of the targets that completed with a rating_url; rated is   *)
(* the set of these targets.  The ratings are not used.                    *)
(***************************************************************************)
RECURSIVE allServers(_)
allServers(keys) ==
  IF keys = {} THEN << >>
  ELSE LET k == CHOOSE x \in keys : TRUE
       IN idToServers[k] \o allServers(keys \ {k})

pollAndApply(batch, failed, rated) ==
  /\ batch \in pollers
  /\ pollers' = pollers \ {batch}
  /\ IF failed
       THEN UNCHANGED <<notified, hist>>
       ELSE /\ notified' = IF notifiers
                             THEN Notify(notified, "received", allServers(Keys))
                             ELSE notified
            /\ hist' = [hist EXCEPT !.completed = @ \cup rated]

Poller ==
  /\ Running
  /\ APoller \notin waiting
  /\ \E batch \in pollers :
       \/ pollAndApply(batch, TRUE, {})
       \/ /\ ~cancelled
          /\ \E n \in {Len(batch) - 1, Len(batch)} :
               pollAndApply(batch, FALSE, {batch[i] : i \in 1..n})
  /\ waiting' = goNotify(APoller, notified, notified')
  /\ UNCHANGED <<api, mcp, ident, tui, scenario, poll, cancelled, next, client, seen, curBatch, timer, callbacks,
                 idToServers, serverPolicy, serverLinks, serverRating, sendCh,
                 closed, workers, stops, summary, notifiers, panicked>>

(***************************************************************************)
(* ApplyToSummary(summary), for a summary that lists every server.         *)
(***************************************************************************)
ApplyToSummary ==
  /\ Running
  /\ hist.applies < scenario.applies
  /\ summary' = [s \in Servers |->
       [LocalPolicy |-> IF serverPolicy[s] # NoPolicy THEN serverPolicy[s]
                                                      ELSE summary[s].LocalPolicy,
        Rating |-> IF serverRating[s] # NoRating THEN serverRating[s]
                                                 ELSE summary[s].Rating]]
  \* history: whether the summary is filled where the scan command fills it,
  \* after the last Submit of the scan and before FlushAndStop
  /\ hist' = [hist EXCEPT !.applies = @ + 1,
                          !.summaryAt = IF next > Len(scenario.work) /\ stops[1] = "idle"
                                          THEN "scanned" ELSE "other"]
  /\ UNCHANGED <<api, mcp, ident, tui, scenario, poll, cancelled, waiting, next, client, seen, curBatch, timer, callbacks,
                 idToServers, serverPolicy, serverLinks, serverRating, sendCh,
                 closed, workers, pollers, stops, notified, notifiers, panicked>>

(***************************************************************************)
(* client.WaitForScanCompletion, as pollAndApply calls it.  The poller's   *)
(* time is counted in quarter seconds from the moment pollAndApply makes   *)
(* its context, so the context's deadline is the time scanPollTimeout.     *)
(***************************************************************************)
scanPollTimeout == 480    \* 2 * time.Minute
scanPollInterval == 2     \* 500 * time.Millisecond

\* the time a request to the API can take
Latencies == {1, 3, 250}

\* x \div m in int64, for x >= 0 and 0 < m < 2^23
RECURSIVE RemAt(_, _, _)
RemAt(x, m, i) == IF i > 8 THEN 0 ELSE (RemAt(x, m, i + 1) * 256 + x[i]) % m

Div64(x, m) == [i \in 1..8 |-> (RemAt(x, m, i + 1) * 256 + x[i]) \div m]

\* an int64 that is not negative as a number, large ones as 2^31 - 1
ToNat(x) ==
  IF x[4] >= 128 \/ \E i \in 5..8 : x[i] # 0
    THEN 2147483647
    ELSE x[1] + 256 * x[2] + 65536 * x[3] + 16777216 * x[4]

\* a time.Duration in quarter seconds (250000000 ns = 125 * 125 * 125 * 128);
\* a timer for a duration that is not positive fires at once
QuarterSeconds(d) ==
  IF IsNegative(d) THEN 0
  ELSE ToNat(Div64(Div64(Div64(Div64(d, 125), 125), 125), 128))

\* apigen.ScanTarget and apigen.ScanStatus
NoUrl == "<nil>"
NoMessage == "<nil>"
Target(status, url) == [Status |-> status, RatingUrl |-> url]
ScanStatus(status, msg, targets) ==
  [Status |-> status, ErrorMessage |-> msg, Targets |-> targets]

TargetLists ==
  { << >>,
    <<Target("COMPLETED", "/ratings/1"), Target("RUNNING", NoUrl),
      Target("COMPLETED", NoUrl)>>,
    <<Target("COMPLETED", "/ratings/1"), Target("COMPLETED", ""),
      Target("COMPLETED", "/ratings/2")>>,
    <<Target("FAILED", "/ratings/1"), Target("COMPLETED", "/ratings/2")>> }

\* the answers of GetScanStatus: a status, or an error of handleHTTPError
StatusAnswers ==
  {[kind |-> "status", st |-> ScanStatus(s, NoMessage, << >>)] :
      s \in {"QUEUED", "RUNNING", "PARTIAL", "FAILED", "CANCELED", "OTHER"}}
  \cup {[kind |-> "status", st |-> ScanStatus("FAILED", "boom", << >>)]}
  \cup {[kind |-> "status", st |-> ScanStatus("COMPLETED", NoMessage, ts)] :
          ts \in TargetLists}
  \cup {Answer("ratelimited", FALSE, v, 429) :
          v \in RetryAfterInputs \cup {ToInt64(150)}}
  \cup {Answer("remote", FALSE, << >>, 503)}

NoErr == << >>

\* mutant: a PARTIAL scan counts as done
evaluateScanStatus_PartialDone(st) ==
  CASE st.Status \in {"COMPLETED", "PARTIAL"} -> [done |-> TRUE, err |-> NoErr]
    [] st.Status = "FAILED" ->
         [done |-> FALSE,
          err |-> IF st.ErrorMessage # NoMessage
                    THEN <<"scan failed: ", st.ErrorMessage>>
                    ELSE <<"scan failed">>]
    [] st.Status = "CANCELED" -> [done |-> FALSE, err |-> <<"scan canceled">>]
    [] OTHER -> [done |-> FALSE, err |-> NoErr]

\* evaluateScanStatus: [done, err]
evaluateScanStatus(st) ==
  CASE st.Status = "COMPLETED" -> [done |-> TRUE, err |-> NoErr]
    [] st.Status = "FAILED" ->
         [done |-> FALSE,
          err |-> IF st.ErrorMessage # NoMessage
                    THEN <<"scan failed: ", st.ErrorMessage>>
                    ELSE <<"scan failed">>]
    [] st.Status = "CANCELED" -> [done |-> FALSE, err |-> <<"scan canceled">>]
    [] OTHER -> [done |-> FALSE, err |-> NoErr]

\* shouldWaitBeforeRetry: [ok, d]
shouldWaitBeforeRetry(err) ==
  IF err.kind = "ratelimited" /\ ~IsNegative(err.retryAfter) /\ ~IsZero(err.retryAfter)
    THEN [ok |-> TRUE, d |-> Mul64(err.retryAfter, Second)]
    ELSE [ok |-> FALSE, d |-> ToInt64(0)]

\* mutant: every completed target is fetched, with a rating_url or not
Qualifies_AnyCompleted(t) == t.Status = "COMPLETED"

\* the condition of fetchAllCompletedRatings on a target
Qualifies(t) == t.Status = "COMPLETED" /\ t.RatingUrl # NoUrl /\ t.RatingUrl # ""

\* the SecurityRating fetchRatingRelative returns for a rating url
RatingAt(url) == <<"rating", url>>

\* ctx.Err() of the poller's context at time now
ctxErr(now) ==
  IF cancelled THEN <<"context canceled">>
  ELSE IF now >= scanPollTimeout THEN <<"context deadline exceeded">>
  ELSE NoErr

\* mutant: the context has no deadline
Race_NoDeadline(now, d) ==
  IF cancelled
    THEN (IF d = 0 THEN {[now |-> now, ctx |-> c] : c \in BOOLEAN}
                   ELSE {[now |-> now, ctx |-> TRUE]})
    ELSE {[now |-> now + d, ctx |-> FALSE]}

(***************************************************************************)
(* A blocking operation under the poller's context: a request that takes   *)
(* d, or select { case <-ctx.Done(): ... case <-timer: ... } with a timer  *)
(* due in d.  The results are the time at which it ends and whether it     *)
(* ends with ctx.Err(); when both cases are ready, select takes either.    *)
(***************************************************************************)
Race(now, d) ==
  IF ctxErr(now) # NoErr
    THEN (IF d = 0 THEN {[now |-> now, ctx |-> c] : c \in BOOLEAN}
                   ELSE {[now |-> now, ctx |-> TRUE]})
    ELSE IF now + d < scanPollTimeout THEN {[now |-> now + d, ctx |-> FALSE]}
    ELSE IF now + d = scanPollTimeout
      THEN {[now |-> now + d, ctx |-> c] : c \in BOOLEAN}
      ELSE {[now |-> scanPollTimeout, ctx |-> TRUE]}

\* WaitForScanCompletion is entered: the ticker is made, nothing was asked
NoStatus == ScanStatus("", NoMessage, << >>)

PollStart ==
  [pc |-> "query", now |-> 0, tick |-> FALSE, wake |-> 0,
   st |-> NoStatus, i |-> 0, ratings |-> << >>, err |-> NoErr]

\* return nil, err: the ticker is stopped
PollFail(p, now, err) ==
  [PollStart EXCEPT !.pc = "return", !.now = now, !.err = err, !.st = p.st]

\* the ticker's channel holds a tick at the time now: it held one before, or
\* a multiple of scanPollInterval has passed since p.now
Ticked(p, now) ==
  p.tick \/ now \div scanPollInterval > p.now \div scanPollInterval

\* every variable of the collector but rc.ctx
collector == <<scenario, next, client, seen, curBatch, timer, callbacks,
               idToServers, serverPolicy, serverLinks, serverRating, sendCh,
               closed, workers, pollers, stops, summary, notified, notifiers,
               panicked, waiting, hist>>

\* c.GetScanStatus(ctx, scanUUID), answered a after the time l, and what the
\* loop does with the answer up to its next blocking operation
PollQuery(a, l) ==
  /\ poll.pc = "query"
  /\ \E o \in Race(poll.now, l) :
       poll' =
         IF o.ctx THEN PollFail(poll, o.now, ctxErr(o.now))
         ELSE IF a.kind = "status"
           THEN LET ev == evaluateScanStatus(a.st)
                IN IF ev.err # NoErr THEN PollFail(poll, o.now, ev.err)
                   ELSE IF ev.done
                     THEN [poll EXCEPT !.pc = "fetch", !.now = o.now,
                                       !.tick = FALSE, !.st = a.st, !.i = 1]
                     ELSE [poll EXCEPT !.pc = "tickwait", !.now = o.now,
                                       !.tick = Ticked(poll, o.now)]
           ELSE LET w == shouldWaitBeforeRetry(a)
                IN IF w.ok
                     THEN [poll EXCEPT !.pc = "retrywait", !.now = o.now,
                                       !.tick = Ticked(poll, o.now),
                                       !.wake = QuarterSeconds(w.d)]
                     ELSE PollFail(poll, o.now, <<a.kind>>)
  /\ UNCHANGED <<api, mcp, ident, tui, collector, cancelled>>

\* select { case <-ctx.Done(): return nil, ctx.Err(); case <-time.After(d): continue }
PollRetryWait ==
  /\ poll.pc = "retrywait"
  /\ \E o \in Race(poll.now, poll.wake) :
       poll' = IF o.ctx THEN PollFail(poll, o.now, ctxErr(o.now))
               ELSE [poll EXCEPT !.pc = "query", !.now = o.now, !.wake = 0,
                                 !.tick = Ticked(poll, o.now)]
  /\ UNCHANGED <<api, mcp, ident, tui, collector, cancelled>>

\* select { case <-ctx.Done(): return nil, ctx.Err(); case <-ticker.C: }
\* The ticker's channel holds one tick: a tick that came before is taken at
\* once (the ticks after it were dropped), else the next tick is awaited.
PollTickWait ==
  /\ poll.pc = "tickwait"
  /\ LET d == IF poll.tick THEN 0
              ELSE scanPollInterval - (poll.now % scanPollInterval)
     IN \E o \in Race(poll.now, d) :
          poll' = IF o.ctx THEN PollFail(poll, o.now, ctxErr(o.now))
                  ELSE [poll EXCEPT !.pc = "query", !.now = o.now,
                                    !.tick = FALSE]
  /\ UNCHANGED <<api, mcp, ident, tui, collector, cancelled>>

\* one iteration of the loop of fetchAllCompletedRatings, or its return; the
\* fetch of a qualifying target takes the time l and succeeds or not
PollFetch(ok, l) ==
  /\ poll.pc = "fetch"
  /\ IF poll.i > Len(poll.st.Targets)
       THEN poll' = [poll EXCEPT !.pc = "return"]
       ELSE LET t == poll.st.Targets[poll.i]
            IN IF ~Qualifies(t)
                 THEN poll' = [poll EXCEPT !.i = @ + 1]
                 ELSE \E o \in Race(poll.now, l) :
                        poll' =
                          IF o.ctx THEN PollFail(poll, o.now, ctxErr(o.now))
                          ELSE IF ~ok THEN PollFail(poll, o.now, <<"not found">>)
                          ELSE [poll EXCEPT
                                  !.now = o.now, !.i = @ + 1,
                                  !.ratings = Append(@, RatingAt(t.RatingUrl))]
  /\ UNCHANGED <<api, mcp, ident, tui, collector, cancelled>>

\* pollAndApply after the call: an error is logged, ratings are dropped
PollReturn ==
  /\ poll.pc = "return"
  /\ poll' = [poll EXCEPT !.pc = "done"]
  /\ UNCHANGED <<api, mcp, ident, tui, collector, cancelled>>

\* the parent of rc.ctx cancels it
PollCancel ==
  /\ poll.pc \notin {"idle", "done"}
  /\ ~cancelled
  /\ cancelled' = TRUE
  /\ UNCHANGED <<api, mcp, ident, tui, collector, poll>>

PollStep ==
  \/ \E a \in StatusAnswers : \E l \in Latencies : PollQuery(a, l)
  \/ PollRetryWait
  \/ PollTickWait
  \/ \E ok \in BOOLEAN : \E l \in Latencies : PollFetch(ok, l)
  \/ PollReturn

PollNext ==
  /\ PollStep \/ PollCancel
  /\ poll'.now <= scanPollTimeout + MaxOverrun

PollInit == Collector(Scan) /\ poll = PollStart /\ Aside

PollSpec == PollInit /\ [][PollNext]_vars

\* the poller's goroutine is scheduled and time passes
PollLive == PollSpec /\ WF_vars(PollStep /\ poll'.now <= scanPollTimeout + MaxOverrun)

\* the parent of rc.ctx cancels it: the user interrupts the scan
Cancel ==
  /\ Running
  /\ scenario.cancels
  /\ ~cancelled
  /\ cancelled' = TRUE
  /\ UNCHANGED <<api, mcp, ident, tui, collector, poll>>

(***************************************************************************)
(* notifyProcessingForBatch and notifyReceivedForBatch read the map        *)
(* rc.idToServers in the worker's goroutine without taking rc.mu, while    *)
(* Submit assigns to the map under rc.mu in the goroutine of the scan.     *)
(* When the two overlap the read returns the entry as it was before or     *)
(* after the assignment (the steps of the worker above), or the runtime    *)
(* finds the map being written and ends the process with a fatal error.    *)
(***************************************************************************)
\* the worker is about to run notifyReceivedForBatch, or
\* notifyProcessingForBatch after a 202 answer
ReadsUnlocked(w) ==
  /\ notifiers
  /\ \/ workers[w].pc = "received"
     \/ /\ workers[w].pc = "post"
        /\ ~cancelled
        /\ Accepted \in scenario.answers
        /\ hist.scans < MaxScans

\* the scan is about to call Submit for a declaration whose identifiers are
\* assigned to rc.idToServers
SubmitWrites ==
  /\ next <= Len(scenario.work)
  /\ ~localAllowlisted(scenario.work[next].name)
  /\ client # "nil"
  /\ \E i \in 1..Len(scenario.work[next].ids) :
       /\ scenario.work[next].ids[i].Kind # ""
       /\ scenario.work[next].ids[i].Value # ""

MapRace ==
  /\ Running
  /\ SubmitWrites
  /\ \E w \in 1..workerCount : ReadsUnlocked(w)
  /\ panicked' = "concurrent map read and map write"
  /\ UNCHANGED <<api, mcp, ident, tui, scenario, poll, cancelled, waiting, next, client, seen, curBatch, timer, callbacks,
                 idToServers, serverPolicy, serverLinks, serverRating, sendCh,
                 closed, workers, pollers, stops, summary, notified, notifiers,
                 hist>>

Next ==
  \/ Submit
  \/ TimerFire
  \/ flush
  \/ SetClient
  \/ FlushAndStop
  \/ Worker
  \/ Poller
  \/ ApplyToSummary
  \/ Cancel
  \/ MapRace

Spec == Init /\ [][Next]_vars

(***************************************************************************)
(* Properties.                                                             *)
(***************************************************************************)

\* C1: in every interleaving of Submit, the debounce flush, the SetClient
\* flush and FlushAndStop, no batch is sent on rc.sendCh after it was closed.
\* A send on the closed channel panics, so the claim is that this panic
\* never happens.
C1_NoSendAfterClose == panicked # "send on closed channel"

\* C2: the queue is closed exactly once, for any number and interleaving of
\* FlushAndStop calls: close(rc.sendCh) is executed at most once.
C2_ClosedOnce == hist.closes <= 1

\* C3: when FlushAndStop returns, the pending batch is empty, no batch
\* remains in the queue and all workers have exited (so every batch a worker
\* took has finished its delivery attempts).
C3_StopPostcondition ==
  [][\A i \in 1..MaxStops :
       StopReturn(i) =>
         /\ curBatch' = << >>
         /\ sendCh' = << >>
         /\ \A w \in 1..workerCount : workers'[w].pc = "done"]_vars

\* the pending batch of a Submit of declaration d after its identifiers were
\* appended, before any flush
PendingAfter(d) ==
  SubmitIds(d.name, d.ids, 1,
            [seen |-> seen, curBatch |-> curBatch,
             idToServers |-> idToServers]).curBatch

\* a step that is a Submit reaching the identifier loop
SubmitsIdentifiers ==
  /\ Submit
  /\ ~localAllowlisted(scenario.work[next].name)
  /\ client # "nil"
  /\ Len(scenario.work[next].ids) # 0

\* C4: a Submit that brings the pending batch to exactly batchSize
\* identifiers flushes it at once; a Submit that brings it to batchSize + k
\* (k > 0) flushes exactly the first batchSize identifiers as one batch and
\* leaves the other k pending, with the debounce timer armed.
C4_FlushAtBatchSize ==
  [][SubmitsIdentifiers =>
       LET pend == PendingAfter(scenario.work[next])
       IN /\ Len(pend) = batchSize =>
               /\ hist'.flushed = pend
               /\ curBatch' = << >>
          /\ Len(pend) > batchSize =>
               /\ hist'.flushed = SubSeq(pend, 1, batchSize)
               /\ curBatch' = SubSeq(pend, batchSize + 1, Len(pend))
               /\ timer'.armed]_vars

\* a step that runs flushLocked on a pending batch that is not empty
Flushes ==
  \/ curBatch # << >> /\ (flush \/ SetClient \/ \E i \in 1..MaxStops : StopFlush(i))
  \/ SubmitsIdentifiers /\ Len(PendingAfter(scenario.work[next])) >= batchSize

\* C5: a flush never blocks the producer: when the queue already holds
\* channelSize batches, the flushed batch is dropped and the flushing call
\* returns.
C5_FullQueueDrops ==
  [][(Flushes /\ Len(sendCh) = channelSize) =>
       /\ panicked' = ""
       /\ hist'.drops = hist.drops + 1
       /\ sendCh' = sendCh
       /\ curBatch' = << >>]_vars

IsError(a) == a.kind \in {"ratelimited", "remote", "other"}
Retryable(a) == a.kind = "ratelimited" \/ (a.kind = "remote" /\ a.status >= 500)

\* C6: a worker makes at most maxAttempts POST attempts for a batch,
\* whatever rate-limit and 5xx answers it gets, and then abandons the batch;
\* an error that is neither RateLimited nor Remote with status >= 500 makes
\* it drop the batch after that attempt.
C6_BoundedAttempts ==
  /\ [][\A w \in 1..workerCount : \A a \in scenario.answers :
          WorkerPost(w, a) =>
            /\ workers'[w].posts = workers[w].posts + 1
            /\ workers'[w].posts <= maxAttempts
            /\ (IsError(a) /\ ~Retryable(a)) => workers'[w].pc = "drop"
            /\ workers'[w].pc = "sleep" => Retryable(a)]_vars
  /\ [][\A w \in 1..workerCount :
          WorkerWake(w) =>
            /\ workers'[w].posts = workers[w].posts
            /\ workers[w].posts = maxAttempts => workers'[w].pc = "drop"]_vars

\* a batch was abandoned after maxAttempts retryable errors
C6_Witness ==
  \E w \in 1..workerCount :
    /\ workers[w].pc = "drop"
    /\ workers[w].posts = maxAttempts
    /\ workers[w].retry

\* the exact product a * b of two non-negative int64, in sixteen bytes
MulExact(a, b) == MulFrom(a, b, 1, 0, 16)

\* the int64 d is retryAfter seconds, as a number
IsSeconds(d, retryAfter) ==
  /\ ~IsNegative(d)
  /\ d \o [i \in 1..8 |-> 0] = MulExact(retryAfter, Second)

\* C7: before a retry the worker waits: after RateLimited, retry_after
\* seconds when that value is positive and else the current backoff, and the
\* backoff stays as it is; after Remote with status >= 500, the current
\* backoff, which starts at backoffBase and is doubled after each such wait.
C7_RetryWaits ==
  [][\A w \in 1..workerCount :
       /\ WorkerTake(w) /\ workers'[w].pc = "post" => workers'[w].backoff = backoffBase
       /\ \A a \in scenario.answers :
            WorkerPost(w, a) =>
              /\ a.kind = "ratelimited" =>
                   /\ workers'[w].backoff = workers[w].backoff
                   /\ IF ~IsNegative(a.retryAfter) /\ ~IsZero(a.retryAfter)
                        THEN IsSeconds(workers'[w].slept, a.retryAfter)
                        ELSE workers'[w].slept = ToInt64(workers[w].backoff)
              /\ (a.kind = "remote" /\ a.status >= 500) =>
                   /\ workers'[w].slept = ToInt64(workers[w].backoff)
                   /\ workers'[w].backoff = 2 * workers[w].backoff]_vars

\* C8: when a batch is answered 202, every server mapped to an identifier
\* of the batch has policy "pending" once the answer has been handled, and
\* exactly one poller is started for it.
C8_AcceptedMarksPending ==
  [][\A w \in 1..workerCount :
       WorkerMarkPending(w) =>
         /\ \A i \in 1..Len(workers[w].batch) :
              \A s \in Range(idToServers'[makeKey(workers[w].batch[i])]) :
                serverPolicy'[s] = "pending"
         /\ workers[w].batch \notin pollers
         /\ pollers' = pollers \cup {workers[w].batch}]_vars

\* a 202 has been handled for a batch with an identifier that two servers
\* share: both are pending and the poller runs
C8_Witness ==
  /\ pollers # {}
  /\ serverPolicy["a"] = "pending"
  /\ serverPolicy["b"] = "pending"
  /\ Len(idToServers[makeKey(Id("purl", "1"))]) = 2

\* C9: after a batch was accepted with 202 and its scan polled to COMPLETED
\* with rating urls for some of its targets, the summary that ApplyToSummary
\* fills after FlushAndStop has returned has a rating for every server of
\* these targets.
C9_RatingsInSummary ==
  [][(ApplyToSummary /\ \E i \in 1..MaxStops : stops[i] = "returned") =>
       \A t \in hist.completed :
         \A s \in Range(idToServers[makeKey(t)]) :
           summary'[s].Rating # NoRating]_vars

\* the servers mapped to an identifier are all the servers submitted with it
MappedAsSubmitted ==
  \A k \in Keys : Range(idToServers[k]) = hist.extracted[k]

\* the servers mapped to an identifier are the servers submitted with it
\* that are not allowlisted and were submitted while a client was set
MappedAsEligible ==
  \A k \in Keys : Range(idToServers[k]) = hist.eligible[k]

\* a step in which a worker handles a 200 answer with a rating url for
\* every identifier of its batch
Rated(w, a) == a.kind = "ok" /\ a.rated /\ WorkerPost(w, a)

C11_OneProcessingPerServer ==
  [][\A w \in 1..workerCount : \A a \in scenario.answers :
       (a.kind = "accepted" /\ notifiers /\ WorkerPost(w, a)) =>
         \A s \in Servers :
           notified'["processing"][s] =
             notified["processing"][s]
               + (IF s \in Range(serversOf(workers[w].batch)) THEN 1 ELSE 0)]_vars

\* a step that is a Submit of an allowlisted server
SubmitsAllowlisted == Submit /\ localAllowlisted(scenario.work[next].name)

\* C12: the Submit of an allowlisted server sets its policy to "allowed" and
\* changes nothing else: the seen set, the pending batch, the mapping, the
\* timer and the queue stay as they are, and nothing is ever sent, mapped,
\* linked or notified for that server.
C12_AllowlistedFrame ==
  /\ [](\A s \in {x \in Servers : localAllowlisted(x)} :
          /\ \A k \in Keys : s \notin Range(idToServers[k])
          /\ serverLinks[s] = NoLink
          /\ \A g \in Stages : notified[g][s] = 0
          /\ serverPolicy[s] \in {NoPolicy, "allowed"})
  /\ [][SubmitsAllowlisted =>
          /\ serverPolicy' = [serverPolicy EXCEPT ![scenario.work[next].name] = "allowed"]
          /\ UNCHANGED <<seen, curBatch, idToServers, timer, callbacks, sendCh,
                         closed, workers, pollers, serverLinks, serverRating,
                         notified, panicked>>]_vars

\* an allowlisted server was submitted with an identifier that is mapped to
\* another server, and is allowed
C12_Witness ==
  /\ serverPolicy["ok"] = "allowed"
  /\ \E k \in Keys : "ok" \in hist.extracted[k] /\ "a" \in Range(idToServers[k])

\* a step that is a Submit made while no client is attached
SubmitsOffline ==
  Submit /\ ~localAllowlisted(scenario.work[next].name) /\ client = "nil"

Aborted ==
  poll'.err \in {<<"context canceled">>, <<"context deadline exceeded">>}

\* C14: WaitForScanCompletion keeps polling while the status is QUEUED,
\* RUNNING or PARTIAL; on COMPLETED it stops and returns the fetched ratings;
\* on FAILED it stops with an error that carries the server's message if
\* there is one and is "scan failed" else; on CANCELED it stops with the
\* error "scan canceled".
C14_StatusDispatch ==
  [][/\ \A a \in StatusAnswers : \A l \in Latencies :
          (a.kind = "status" /\ PollQuery(a, l) /\ ~Aborted) =>
            CASE a.st.Status \in {"QUEUED", "RUNNING", "PARTIAL"} ->
                   poll'.pc = "tickwait" /\ poll'.err = NoErr
              [] a.st.Status = "COMPLETED" ->
                   poll'.pc = "fetch" /\ poll'.st = a.st /\ poll'.err = NoErr
              [] a.st.Status = "FAILED" ->
                   /\ poll'.pc = "return"
                   /\ poll'.ratings = << >>
                   /\ poll'.err = IF a.st.ErrorMessage # NoMessage
                                    THEN <<"scan failed: ", a.st.ErrorMessage>>
                                    ELSE <<"scan failed">>
              [] a.st.Status = "CANCELED" ->
                   /\ poll'.pc = "return"
                   /\ poll'.ratings = << >>
                   /\ poll'.err = <<"scan canceled">>
              [] OTHER -> TRUE
     /\ (PollTickWait /\ ~Aborted) => poll'.pc = "query"
     /\ (poll.pc = "fetch" /\ poll.i > Len(poll.st.Targets)
           /\ \E ok \in BOOLEAN : \E l \in Latencies : PollFetch(ok, l)) =>
          poll'.pc = "return" /\ poll'.err = NoErr /\ poll'.ratings = poll.ratings
    ]_vars

\* polling went on after a first status and then ended on FAILED with the
\* server's message
C14_Witness ==
  /\ poll.pc = "return"
  /\ poll.err = <<"scan failed: ", "boom">>
  /\ poll.now > scanPollInterval

\* the ratings of the targets of ts that are COMPLETED with a rating_url
\* that is not empty, one for each, in their order
RECURSIVE Expected(_)
Expected(ts) ==
  IF ts = << >> THEN << >>
  ELSE (IF Head(ts).Status = "COMPLETED" /\ Head(ts).RatingUrl \notin {NoUrl, ""}
          THEN <<RatingAt(Head(ts).RatingUrl)>> ELSE << >>)
       \o Expected(Tail(ts))

\* C15, as claimed: when the scan status is COMPLETED, polling returns
\* exactly one rating for every target that is COMPLETED with a rating_url
\* that is not empty, and nothing for any other target.
C15_CompletedRatings_Original ==
  (poll.pc = "return" /\ poll.st.Status = "COMPLETED") =>
     poll.err = NoErr /\ poll.ratings = Expected(poll.st.Targets)

\* C15, amended: when the scan status is COMPLETED and the rating of every
\* qualifying target is fetched before the poller's context ends, polling
\* returns exactly one rating for each of them and nothing for any other
\* target; the other targets are skipped without a request and without an
\* error.  When the fetch of a qualifying target fails or the context ends,
\* polling returns that error and no rating at all.
C15_CompletedRatings ==
  /\ []((poll.pc = "fetch") =>
          /\ poll.err = NoErr
          /\ poll.ratings = Expected(SubSeq(poll.st.Targets, 1, poll.i - 1)))
  /\ []((poll.pc = "return" /\ poll.st.Status = "COMPLETED") =>
          IF poll.err = NoErr
            THEN poll.ratings = Expected(poll.st.Targets)
            ELSE /\ poll.ratings = << >>
                 /\ poll.err \in {<<"not found">>, <<"context canceled">>,
                                  <<"context deadline exceeded">>})
  /\ [][\A ok \in BOOLEAN : \A l \in Latencies :
          (PollFetch(ok, l) /\ poll.i <= Len(poll.st.Targets)) =>
            LET t == poll.st.Targets[poll.i]
                q == t.Status = "COMPLETED" /\ t.RatingUrl \notin {NoUrl, ""}
            IN /\ ~q => poll' = [poll EXCEPT !.i = @ + 1]
               /\ (q /\ ok /\ ~Aborted) =>
                    /\ poll'.ratings = Append(poll.ratings, RatingAt(t.RatingUrl))
                    /\ poll'.pc = "fetch"
               /\ (q /\ ~ok /\ ~Aborted) => poll'.err = <<"not found">>]_vars

\* polling returned the two ratings of a status with three targets, one of
\* them completed with an empty rating_url
C15_Witness ==
  /\ poll.pc = "return"
  /\ poll.err = NoErr
  /\ Len(poll.st.Targets) = 3
  /\ poll.ratings = <<RatingAt("/ratings/1"), RatingAt("/ratings/2")>>

\* C16: a 429 answer to a status query does not end the polling: the poller
\* waits the Retry-After duration and then asks for the status again.
C16_RateLimitedPollWaits ==
  [][/\ \A a \in StatusAnswers : \A l \in Latencies :
          (a.kind = "ratelimited" /\ PollQuery(a, l) /\ ~Aborted) =>
            LET e == MulExact(a.retryAfter, Second)
            IN /\ poll'.pc = "retrywait"
               /\ e[8] < 128 /\ \A i \in 9..16 : e[i] = 0
               /\ poll'.wake = QuarterSeconds(SubSeq(e, 1, 8))
     /\ (PollRetryWait /\ ~Aborted) =>
          poll'.pc = "query" /\ poll'.now = poll.now + poll.wake]_vars

\* C17: a poller ends no later than scanPollTimeout after it was started,
\* whatever the API answers: its time never passes the deadline, at the
\* deadline it takes no step that lets time pass, and it does end; the end
\* changes nothing of the collector.
C17_PollerDeadline ==
  /\ [](poll.now <= scanPollTimeout)
  /\ [][poll.now >= scanPollTimeout => poll'.now = poll.now]_vars
  /\ [][PollReturn => UNCHANGED collector]_vars
  /\ <>(poll.pc = "done")

\* a poller that was kept waiting up to its deadline has ended there
C17_Witness ==
  /\ poll.pc = "done"
  /\ poll.now = scanPollTimeout
  /\ poll.err = <<"context deadline exceeded">>
  /\ ~cancelled

\* C18: once the parent context is cancelled, a worker's request gets no
\* answer of the API any more (it is aborted and the batch is dropped), no
\* backoff or Retry-After wait runs to its end, and no poller ends with the
\* result of a completed scan.
C18_CancelStopsWorkers ==
  [][cancelled =>
       \A w \in 1..workerCount :
         /\ workers[w].pc = "post" /\ workers'[w] # workers[w]
              => workers'[w].pc = "drop"
         /\ ~WorkerWake(w)
         /\ hist'.completed = hist.completed]_vars

\* C19: the stage notifiers run in goroutines of their own, so a notifier
\* that never returns holds up no one: no goroutine of the collector ever
\* waits for a notifier, the scan can submit its next declaration and a
\* poller can finish whenever notifications are outstanding.
C19_NotifiersNeverBlock ==
  /\ waiting = {}
  /\ (Running /\ next <= Len(scenario.work)) => ENABLED Submit
  /\ (Running /\ pollers # {}) => ENABLED Poller

\* every stage was notified, no notifier has returned, and the scan, the
\* workers, the pollers and FlushAndStop have all finished
C19_Witness ==
  /\ \A stage \in {"submitted", "processing", "received"} :
       \E s \in Servers : notified[stage][s] > 0
  /\ next > Len(scenario.work)
  /\ pollers = {}
  /\ \A w \in 1..workerCount : workers[w].pc = "done"
  /\ \E i \in 1..MaxStops : stops[i] = "returned"

\* C20: the timer's callback flushes the pending batch only when no Submit
\* has occurred for the debounce interval: at that flush the timer is not
\* armed again by a later Submit.  (The flushes of Submit at batchSize, of
\* SetClient and of FlushAndStop are other actions.)
C20_DebounceWindow ==
  [][(flush /\ curBatch # << >>) => ~timer.armed]_vars

(***************************************************************************)
(* The API client: NewClient with its initial health probe, then           *)
(* goroutines that call checkHealth and send requests on the client that   *)
(* NewClient returned.                                                     *)
(***************************************************************************)
Goroutines == 2   \* the goroutines that use the client
MaxOps == 3       \* the calls they make on the client

Identity(org, host, anonymous) ==
  [OrgUUID |-> org, HostUUID |-> host, Anonymous |-> anonymous]

Identities ==
  {NoIdentity, Identity("org", "host", FALSE), Identity("org", "", FALSE),
   Identity("", "", TRUE), Identity("org", "host", TRUE)}

\* IdentityFromContext(ctx): (Identity, bool)
IdentityFromContext ==
  {[ok |-> TRUE, id |-> i] : i \in Identities}
  \cup {[ok |-> FALSE, id |-> NoIdentity]}

\* what happens to the GET /health of the probe
ProbeOutcome(kind, code, status) == [kind |-> kind, code |-> code, status |-> status]

ProbeOutcomes ==
  {ProbeOutcome("badrequest", 0, ""), ProbeOutcome("neterr", 0, "")}
  \cup {ProbeOutcome("response", code, st) :
          code \in {200, 404}, st \in {"", "healthy", "degraded"}}

\* the function given to c.healthOnce.Do: [status, err, requests]
healthProbe(c, o) ==
  IF c.skipHealthProbe
    THEN [status |-> "healthy", err |-> "", requests |-> 0]
  ELSE IF o.kind = "badrequest"
    THEN [status |-> "unhealthy", err |-> "request", requests |-> 0]
  ELSE IF o.kind = "neterr"
    THEN [status |-> "unhealthy", err |-> "network", requests |-> 1]
  ELSE IF o.code >= 200 /\ o.code < 300
    THEN [status |-> IF o.status # "" THEN o.status ELSE "healthy",
          err |-> "", requests |-> 1]
  ELSE [status |-> "unhealthy", err |-> "unexpected status", requests |-> 1]

\* mutant: the probe is made by every call, the cached result is not used
healthOnceDo_Always(once) == TRUE

\* c.healthOnce.Do(f): the caller that finds the Once new runs f
healthOnceDo(once) == once = "new"

\* mutant: an anonymous identity of the context falls back to the default
newRequest_Fallback(c, ctx) ==
  IF c.forceOffline THEN [err |-> "offline", header |-> {}]
  ELSE LET id == IF ctx.ok /\ ~ctx.id.Anonymous THEN ctx.id ELSE c.defaultIdentity
       IN [err |-> "",
           header |->
             {<<"User-Agent", "run-mcp">>, <<"Accept", "application/json">>,
              <<"Authorization", "Bearer">>}
             \cup (IF ~id.Anonymous /\ id.OrgUUID # ""
                     THEN {<<"X-Org-Uuid", id.OrgUUID>>} ELSE {})
             \cup (IF ~id.Anonymous /\ id.HostUUID # ""
                     THEN {<<"X-Host-Uuid", id.HostUUID>>} ELSE {})]

\* mutant: the offline flag is not looked at
newRequest_Online(c, ctx) ==
  LET id == IF ctx.ok THEN ctx.id ELSE c.defaultIdentity
  IN [err |-> "",
      header |->
        {<<"User-Agent", "run-mcp">>, <<"Accept", "application/json">>,
         <<"Authorization", "Bearer">>}
        \cup (IF ~id.Anonymous /\ id.OrgUUID # ""
                THEN {<<"X-Org-Uuid", id.OrgUUID>>} ELSE {})
        \cup (IF ~id.Anonymous /\ id.HostUUID # ""
                THEN {<<"X-Host-Uuid", id.HostUUID>>} ELSE {})]

\* newRequest: [err, header], the header as a set of <<name, value>>
newRequest(c, ctx) ==
  IF c.forceOffline THEN [err |-> "offline", header |-> {}]
  ELSE LET id == IF ctx.ok THEN ctx.id ELSE c.defaultIdentity
       IN [err |-> "",
           header |->
             {<<"User-Agent", "run-mcp">>, <<"Accept", "application/json">>,
              <<"Authorization", "Bearer">>}
             \cup (IF ~id.Anonymous /\ id.OrgUUID # ""
                     THEN {<<"X-Org-Uuid", id.OrgUUID>>} ELSE {})
             \cup (IF ~id.Anonymous /\ id.HostUUID # ""
                     THEN {<<"X-Host-Uuid", id.HostUUID>>} ELSE {})]

\* a goroutine that uses the client: what its last call was and returned
IdleCaller == [pc |-> "idle", call |-> "", status |-> "", err |-> ""]

\* the rest of the program, which the client does not touch
pipeline == <<collector, poll, cancelled, tui>>

\* NewClient up to the call of checkHealth: the defaults, the options, and
\* the branch on skipHealthProbe
NewClientStart ==
  /\ api.ctor = "new"
  /\ api' = IF api.skipHealthProbe
              THEN [api EXCEPT !.healthStatus = "healthy", !.healthErr = "",
                               !.ctor = "done"]
              ELSE [api EXCEPT !.healthOnce = "running", !.ctor = "probe"]
  /\ UNCHANGED <<pipeline, mcp, ident>>

\* NewClient from the probe to its return: a probe that fails, or a status
\* that is not Healthy, stores forceOffline and returns ErrOffline
NewClientProbe(o) ==
  /\ api.ctor = "probe"
  /\ LET h == healthProbe(api, o)
         off == h.err # "" \/ h.status # "healthy"
     IN api' = [api EXCEPT !.healthOnce = "done",
                           !.healthStatus = h.status, !.healthErr = h.err,
                           !.probes = @ + h.requests,
                           !.forceOffline = IF off THEN TRUE ELSE @,
                           !.ctorErr = IF off THEN "offline" ELSE "",
                           !.ctor = "done"]
  /\ UNCHANGED <<pipeline, mcp, ident>>

\* goroutine g calls checkHealth: it runs the probe, waits for the goroutine
\* that runs it, or returns the cached result
CheckHealth(g) ==
  /\ api.ctor = "done"
  /\ api.callers[g].pc = "idle"
  /\ api.ops < MaxOps
  /\ LET me == [api.callers[g] EXCEPT !.call = "checkHealth",
                                      !.status = "", !.err = ""]
     IN api' =
          IF healthOnceDo(api.healthOnce)
            THEN [api EXCEPT !.ops = @ + 1, !.healthOnce = "running",
                             !.callers[g] = [me EXCEPT !.pc = "probe"]]
          ELSE IF api.healthOnce = "running"
            THEN [api EXCEPT !.ops = @ + 1,
                             !.callers[g] = [me EXCEPT !.pc = "wait"]]
          ELSE [api EXCEPT !.ops = @ + 1,
                           !.callers[g] =
                  [me EXCEPT !.status = api.healthStatus, !.err = api.healthErr]]
  /\ UNCHANGED <<pipeline, mcp, ident>>

\* the function of the Once runs in goroutine g, which then returns
HealthProbe(g, o) ==
  /\ api.callers[g].pc = "probe"
  /\ LET h == healthProbe(api, o)
     IN api' = [api EXCEPT !.healthOnce = "done",
                           !.healthStatus = h.status, !.healthErr = h.err,
                           !.probes = @ + h.requests,
                           !.callers[g] = [@ EXCEPT !.pc = "idle",
                                                    !.status = h.status,
                                                    !.err = h.err]]
  /\ UNCHANGED <<pipeline, mcp, ident>>

\* Do returns in a goroutine that waited for the probe
HealthWake(g) ==
  /\ api.callers[g].pc = "wait"
  /\ api.healthOnce = "done"
  /\ api' = [api EXCEPT !.callers[g] = [@ EXCEPT !.pc = "idle",
                                                 !.status = api.healthStatus,
                                                 !.err = api.healthErr]]
  /\ UNCHANGED <<pipeline, mcp, ident>>

\* goroutine g sends a request (GetRating, SubmitBatchRatings, GetScanStatus
\* or fetchRatingRelative): newRequest, then c.httpClient.Do unless
\* newRequest failed; the network answers or fails.  api.last is the request
\* made last: its context, the result of newRequest, and whether it was sent
Request(g, ctx, neterr) ==
  /\ api.ctor = "done"
  /\ api.callers[g].pc = "idle"
  /\ api.ops < MaxOps
  /\ LET r == newRequest(api, ctx)
     IN api' = [api EXCEPT
                  !.ops = @ + 1,
                  !.calls = IF r.err = "" THEN @ + 1 ELSE @,
                  !.last = [ctx |-> ctx, err |-> r.err, header |-> r.header,
                            sent |-> r.err = ""],
                  !.callers[g] =
                    [@ EXCEPT !.call = "request",
                              !.status = "",
                              !.err = IF r.err # "" THEN r.err
                                      ELSE IF neterr THEN "network" ELSE ""]]
  /\ UNCHANGED <<pipeline, mcp, ident>>

ClientNext ==
  \/ NewClientStart
  \/ \E o \in ProbeOutcomes : NewClientProbe(o)
  \/ \E g \in 1..Goroutines : CheckHealth(g)
  \/ \E g \in 1..Goroutines : \E o \in ProbeOutcomes : HealthProbe(g, o)
  \/ \E g \in 1..Goroutines : HealthWake(g)
  \/ \E g \in 1..Goroutines : \E ctx \in IdentityFromContext :
       \E neterr \in BOOLEAN : Request(g, ctx, neterr)

\* the options of NewClient, and the default identity a test may set
ClientInit ==
  /\ Collector(Scan)
  /\ poll = PollIdle
  /\ tui = TuiIdle
  /\ mcp = McpIdle
  /\ ident = IdentIdle
  /\ \E skip \in BOOLEAN : \E id \in Identities :
       api = [ApiIdle EXCEPT !.skipHealthProbe = skip, !.defaultIdentity = id,
                             !.callers = [g \in 1..Goroutines |-> IdleCaller]]

ClientSpec == ClientInit /\ [][ClientNext]_vars

\* C21: for one client GET /health is requested at most once, however many
\* goroutines call checkHealth, and every call returns the cached status and
\* error, which never change once the probe is done.
C21_HealthProbedOnce ==
  /\ [](/\ api.probes <= 1
        /\ \A g \in DOMAIN api.callers :
             (api.callers[g].call = "checkHealth" /\ api.callers[g].pc = "idle")
               => /\ api.callers[g].status = api.healthStatus
                  /\ api.callers[g].err = api.healthErr)
  /\ [][api.healthOnce = "done" =>
          /\ api'.healthStatus = api.healthStatus
          /\ api'.healthErr = api.healthErr]_vars

\* NewClient made the probe and both goroutines have called checkHealth
C21_Witness ==
  /\ api.probes = 1
  /\ api.callers # << >>
  /\ \A g \in DOMAIN api.callers :
       /\ api.callers[g].call = "checkHealth"
       /\ api.callers[g].pc = "idle"
       /\ api.callers[g].status = "healthy"

\* C22: a failed health probe leaves the client offline for good: the flag
\* is set when NewClient returns, it is never cleared, a request made while
\* it is set returns ErrOffline and no HTTP call is made, and the flag is set
\* by nothing but NewClient after a probe that failed or was not Healthy.
C22_OfflineForGood ==
  /\ []((api.ctor = "done" /\ ~api.skipHealthProbe /\ api.healthErr # "")
          => api.forceOffline)
  /\ [][api.forceOffline =>
          /\ api'.forceOffline
          /\ api'.calls = api.calls
          /\ api'.probes = api.probes
          /\ \A g \in DOMAIN api.callers :
               (\E ctx \in IdentityFromContext : \E neterr \in BOOLEAN :
                  Request(g, ctx, neterr))
                 => api'.callers[g].err = "offline"]_vars
  /\ [][(api'.forceOffline /\ ~api.forceOffline) =>
          /\ api.ctor = "probe"
          /\ api'.healthErr # "" \/ api'.healthStatus # "healthy"]_vars

\* the probe failed on the network and a later request was refused
C22_Witness ==
  /\ api.forceOffline
  /\ api.healthErr = "network"
  /\ api.calls = 0
  /\ \E g \in DOMAIN api.callers :
       api.callers[g].call = "request" /\ api.callers[g].err = "offline"

\* C23: a request whose effective identity (that of the context when it has
\* one, else the client's default) is anonymous carries neither X-Org-Uuid
\* nor X-Host-Uuid, whatever UUIDs the identity holds.
C23_AnonymousSendsNoUuid ==
  LET id == IF api.last.ctx.ok THEN api.last.ctx.id ELSE api.defaultIdentity
  IN (api.last.sent /\ id.Anonymous) =>
       \A h \in api.last.header : h[1] \notin {"X-Org-Uuid", "X-Host-Uuid"}

\* an anonymous identity with UUIDs in the context, over a default identity
\* that is not anonymous
C23_Witness ==
  /\ api.last.sent
  /\ api.last.ctx = [ok |-> TRUE, id |-> Identity("org", "host", TRUE)]
  /\ api.defaultIdentity = Identity("org", "host", FALSE)

(***************************************************************************)
(* Configuration documents.  A document is the text of a file as its       *)
(* parser reads it: an object is the sequence of its members in the order  *)
(* of the text (a key may be written twice), a string leaf is a sequence   *)
(* of pieces and knows the line it is written on.                          *)
(***************************************************************************)
\* the OpenAI key as a JSON text may write it, with the escape of the code
\* point 0054 in the place of its letter T
EscapedKey == <<"sk-proj-abc\\u0054", "3BlbkFJdef">>

\* the string a decoder reads from the text between two quotes: the escapes
\* are replaced by the characters they stand for
Unquote(text) == IF text = EscapedKey THEN <<"sk-proj-abcT3BlbkFJdef">> ELSE text

\* a string leaf written as text on a line of the file; s is the string the
\* decoder gives
Quoted(text, line) == [t |-> "str", s |-> Unquote(text), line |-> line, text |-> text]

\* a string leaf written without escapes
Str(s, line) == Quoted(s, line)
Obj(m) == [t |-> "obj", m |-> m]
Arr(e) == [t |-> "arr", e |-> e]
Member(k, v) == [k |-> k, v |-> v]

\* strings.ToLower of the keys that documents use
ToLower(k) ==
  CASE k = "MCPSERVERS" -> "mcpservers"
    [] k = "mcpServers" -> "mcpservers"
    [] k = "COMMAND" -> "command"
    [] k = "KEY" -> "key"
    [] OTHER -> k

\* the value a decoder keeps for key k of the members m: the one written last
RECURSIVE LastOf(_, _)
LastOf(m, k) ==
  IF m[Len(m)].k = k THEN m[Len(m)].v ELSE LastOf(SubSeq(m, 1, Len(m) - 1), k)

\* the keys of the members m, each once, in the order of their first place
RECURSIVE KeysOf(_)
KeysOf(m) ==
  IF m = << >> THEN << >>
  ELSE LET front == KeysOf(SubSeq(m, 1, Len(m) - 1))
           k == m[Len(m)].k
       IN IF \E i \in 1..Len(front) : front[i] = k THEN front ELSE Append(front, k)

\* json.Unmarshal into interface{}: an object becomes a map[string]interface{},
\* which has one entry for each key
RECURSIVE Decode(_)
Decode(v) ==
  IF v.t = "obj"
    THEN LET ks == KeysOf(v.m)
         IN Obj([i \in 1..Len(ks) |-> Member(ks[i], Decode(LastOf(v.m, ks[i])))])
  ELSE IF v.t = "arr"
    THEN Arr([i \in 1..Len(v.e) |-> Decode(v.e[i])])
  ELSE v

\* checkCaseInsensitiveKeysRecursive(obj, path) # nil, for a decoded value
RECURSIVE checkCaseInsensitiveKeysRecursive(_)
checkCaseInsensitiveKeysRecursive(v) ==
  IF v.t = "obj"
    THEN \/ \E i, j \in 1..Len(v.m) :
              i # j /\ ToLower(v.m[i].k) = ToLower(v.m[j].k)
         \/ \E i \in 1..Len(v.m) : checkCaseInsensitiveKeysRecursive(v.m[i].v)
  ELSE IF v.t = "arr"
    THEN \E i \in 1..Len(v.e) : checkCaseInsensitiveKeysRecursive(v.e[i])
  ELSE FALSE

\* detectCaseInsensitiveKeyCollisions(data) # nil: a text that does not
\* decode is left to the main unmarshal
detectCaseInsensitiveKeyCollisions(text) ==
  text.syntax /\ checkCaseInsensitiveKeysRecursive(Decode(text.doc))

(***************************************************************************)
(* Strings and secrets.  A string is a sequence of pieces; a piece is a    *)
(* run of characters that the detector's patterns take or leave as a       *)
(* whole: a word, a separator, or a token.                                 *)
(***************************************************************************)
OpenAIKey == "sk-proj-abcT3BlbkFJdef"          \* matches the openai pattern
GenericToken == "Zq3xmK8pvR1txY7wbN4zcD6_"     \* 24 characters, of no provider pattern

\* len(piece)
PieceLen(p) ==
  CASE p = OpenAIKey -> 22
    [] p = GenericToken -> 24
    [] p = "--key" -> 5
    [] p = "npx" -> 3
    [] p = "mcp" -> 3
    [] p = "https:" -> 6
    [] p = "api.example.com" -> 15
    [] p = "..." -> 3
    [] OTHER -> 1

RECURSIVE StrLen(_)
StrLen(s) == IF s = << >> THEN 0 ELSE PieceLen(Head(s)) + StrLen(Tail(s))

\* the pieces that begin, or end, with a character that is not of a word
NonWord == {"=", "/", "*", "..."}

\* strings.Contains(hay, needle)
Contains(hay, needle) ==
  \E i \in 1..(Len(hay) - Len(needle) + 1) :
    SubSeq(hay, i, i + Len(needle) - 1) = needle

\* providerTokenRegex["openai"].MatchString(s): the token between two \b
MatchesProvider(s) ==
  \E i \in 1..Len(s) :
    /\ s[i] = OpenAIKey
    /\ i > 1 => s[i - 1] \in NonWord
    /\ i < Len(s) => s[i + 1] \in NonWord

\* shannonEntropy(s) >= minEntropyBitsPerChar: the long random run decides
EntropyAtLeastMin(s) ==
  \E i \in 1..Len(s) : s[i] \in {OpenAIKey, GenericToken}

minLen == 24

isHighEntropy(s) ==
  /\ StrLen(s) >= minLen
  /\ s[1] # "--key"                                        \* HasPrefix "-"
  /\ \A i \in 1..Len(s) : s[i] \notin {"=", "/"}          \* ContainsAny "@/="
  /\ EntropyAtLeastMin(s)

\* classifySecretValue: [kind, confidence, found]
classifySecretValue(s) ==
  IF MatchesProvider(s)
    THEN [kind |-> "OpenAI API Key", confidence |-> "HIGH", found |-> TRUE]
  ELSE IF isHighEntropy(s)
    THEN [kind |-> "Generic Secret", confidence |-> "LOW", found |-> TRUE]
  ELSE [kind |-> "", confidence |-> "", found |-> FALSE]

maxMaskLen == 16
prefixPeek == 4

\* secret[:prefixPeek], for a secret longer than prefixPeek + 4
Peek(s) ==
  CASE s[1] = OpenAIKey -> "sk-p"
    [] s[1] = GenericToken -> "Zq3x"
    [] s[1] = "--key" -> "--ke"
    [] OTHER -> "npx"

Stars(n) == [i \in 1..n |-> "*"]

\* the mask of a secret of n characters
masked(s, n) ==
  IF n = 0 THEN << >>
  ELSE IF n <= prefixPeek + 4 THEN Stars(n)
  ELSE IF n > maxMaskLen
    THEN <<Peek(s)>> \o Stars(maxMaskLen - prefixPeek) \o <<"...">>
  ELSE <<Peek(s)>> \o Stars(n - prefixPeek)

redactSecret(s) == masked(s, StrLen(s))

\* sha256 of the raw value, in hex
sha256(s) == <<"sha256:">> \o s

\* the string leaves of a value with their dot paths, in the order of the text
RECURSIVE Leaves(_, _)
RECURSIVE LeavesOfMembers(_, _)
RECURSIVE LeavesOfElements(_, _, _)
Leaves(v, dotPath) ==
  IF v.t = "obj" THEN LeavesOfMembers(v.m, dotPath)
  ELSE IF v.t = "arr" THEN LeavesOfElements(v.e, dotPath, 0)
  ELSE IF v.t = "str"
    THEN <<[path |-> dotPath, s |-> v.s, line |-> v.line, text |-> v.text]>>
  ELSE << >>
LeavesOfMembers(m, dotPath) ==
  IF m = << >> THEN << >>
  ELSE Leaves(Head(m).v, Append(dotPath, Head(m).k)) \o LeavesOfMembers(Tail(m), dotPath)
LeavesOfElements(e, dotPath, i) ==
  IF e = << >> THEN << >>
  ELSE Leaves(Head(e), Append(dotPath, "[" \o ToString(i) \o "]")) \o LeavesOfElements(Tail(e), dotPath, i + 1)

\* the elements of a set of numbers in ascending order
RECURSIVE Ascending(_)
Ascending(S) ==
  IF S = {} THEN << >>
  ELSE LET m == CHOOSE x \in S : \A y \in S : x <= y
       IN <<m>> \o Ascending(S \ {m})

\* locateLines(content, token): the lines of the file that contain the
\* token, ascending
locateLines(doc, token) ==
  LET ls == Leaves(doc, << >>)
  IN IF token = << >> THEN << >>
     ELSE Ascending({ls[i].line : i \in {j \in 1..Len(ls) : Contains(ls[j].text, token)}})

\* Traverse: the value with every string that handleString takes for a
\* secret replaced by its redaction
RECURSIVE Traverse(_)
Traverse(v) ==
  IF v.t = "obj"
    THEN Obj([i \in 1..Len(v.m) |-> Member(v.m[i].k, Traverse(v.m[i].v))])
  ELSE IF v.t = "arr"
    THEN Arr([i \in 1..Len(v.e) |-> Traverse(v.e[i])])
  ELSE IF v.t = "str" /\ v.s # << >> /\ classifySecretValue(v.s).found
    THEN [v EXCEPT !.s = redactSecret(v.s)]
  ELSE v

\* NewSecretFinding of a string classified as c, with the occurrences that
\* handleString gives it
finding(serverName, leaf, filePath, c, lines) ==
  [Kind |-> c.kind, Key |-> leaf.path, Value |-> redactSecret(leaf.s),
   ValueHash |-> sha256(leaf.s), ServerName |-> serverName,
   Confidence |-> c.confidence, File |-> filePath,
   Lines |-> IF Len(lines) > 0 THEN lines ELSE <<0>>]

NewSecretFinding(serverName, leaf, filePath, doc) ==
  finding(serverName, leaf, filePath, classifySecretValue(leaf.s), locateLines(doc, leaf.s))

\* FindingSet.Add: a finding whose hash is in the set gives it its lines
Add(set, incoming) ==
  IF \E i \in 1..Len(set) : set[i].ValueHash = incoming.ValueHash
    THEN [i \in 1..Len(set) |->
            IF set[i].ValueHash = incoming.ValueHash
              THEN [set[i] EXCEPT !.Lines = @ \o incoming.Lines]
              ELSE set[i]]
    ELSE Append(set, incoming)

dedupeAndSortLines(lines) ==
  IF Len(lines) <= 1 THEN lines
  ELSE Ascending({lines[i] : i \in 1..Len(lines)})

\* the findings of the leaves of one server, added to the set
RECURSIVE AddLeaves(_, _, _, _, _)
AddLeaves(set, serverName, leaves, filePath, doc) ==
  IF leaves = << >> THEN set
  ELSE AddLeaves(IF Head(leaves).s # << >> /\ classifySecretValue(Head(leaves).s).found
                   THEN Add(set, NewSecretFinding(serverName, Head(leaves), filePath, doc))
                   ELSE set,
                 serverName, Tail(leaves), filePath, doc)

\* the order of the strings that compareFindings compares
StrRank(x) ==
  CASE x = "Generic Secret" -> 1
    [] x = "OpenAI API Key" -> 2
    [] x = "alpha" -> 3
    [] x = "beta" -> 4
    [] x = "gamma" -> 5
    [] OTHER -> 6

\* compareFindings: by ServerName, then Kind
compareFindings(a, b) ==
  IF a.ServerName # b.ServerName THEN StrRank(a.ServerName) < StrRank(b.ServerName)
  ELSE StrRank(a.Kind) < StrRank(b.Kind)

\* FindingSet.ListSorted
ListSorted(set) ==
  SortSeq([i \in 1..Len(set) |-> [set[i] EXCEPT !.Lines = dedupeAndSortLines(@)]],
          compareFindings)

(***************************************************************************)
(* Files and their decoding.                                               *)
(***************************************************************************)
Num == [t |-> "num"]

\* a server declaration: a command, its arguments and its environment
Srv(line, args, env) ==
  Obj(<<Member("command", Str(<<"npx">>, line)), Member("args", Arr(args)),
        Member("env", Obj(env))>>)

Secret(name, token, line) == Member(name, Str(<<token>>, line))

\* a file of the file system: its path, extension, whether it can be opened,
\* whether it is over maxConfigSize, and its text
File(path, ext, open, large, syntax, doc) ==
  [path |-> path, ext |-> ext, exists |-> TRUE, open |-> open, large |-> large,
   text |-> [syntax |-> syntax, doc |-> doc]]

Text(path, ext, doc) == File(path, ext, TRUE, FALSE, TRUE, doc)

ClaudeDoc ==
  Obj(<<Member("mcpServers", Obj(<<
    Member("alpha", Srv(3, <<Str(<<"--key", "=", GenericToken>>, 4)>>,
                        <<Secret("API_KEY", GenericToken, 5)>>)),
    Member("beta", Srv(7, << >>, <<Secret("OPENAI_API_KEY", OpenAIKey, 9)>>)),
    Member("gamma", Srv(11, <<Str(<<"--key", "=", OpenAIKey>>, 12)>>,
                        <<Secret("OPENAI_API_KEY", OpenAIKey, 13)>>))>>))>>)

VSCodeDoc ==
  Obj(<<Member("servers", Obj(<<
    Member("alpha", Srv(3, << >>, <<Secret("OPENAI_API_KEY", OpenAIKey, 5)>>))>>))>>)

CollideDoc ==
  Obj(<<Member("mcpServers", Obj(<<Member("alpha", Srv(3, << >>, << >>))>>)),
        Member("MCPSERVERS", Obj(<<Member("beta", Srv(8, << >>,
                                     <<Secret("OPENAI_API_KEY", OpenAIKey, 10)>>))>>))>>)

NestedCollideDoc ==
  Obj(<<Member("mcpServers", Obj(<<
    Member("alpha", Srv(3, <<Obj(<<Member("KEY", Str(<<OpenAIKey>>, 4)),
                                   Member("key", Str(<<"npx">>, 5))>>)>>, << >>))>>))>>)

DuplicateDoc ==
  Obj(<<Member("mcpServers", Obj(<<Member("alpha", Srv(3, << >>, << >>))>>)),
        Member("mcpServers", Obj(<<Member("beta", Srv(8, << >>,
                                     <<Secret("OPENAI_API_KEY", OpenAIKey, 10)>>))>>))>>)

LibreChatDoc ==
  Obj(<<Member("version", Str(<<"1.2.1">>, 1)),
        Member("mcp", Obj(<<Member("servers", Obj(<<
          Member("alpha", Srv(5, << >>, << >>))>>))>>))>>)

ContinueDoc == Obj(<<Member("mcp", Obj(<<Member("alpha", Srv(3, << >>, << >>))>>))>>)

GooseDoc == Obj(<<Member("mcp_servers", Obj(<<Member("alpha", Srv(3, << >>, << >>))>>))>>)

NotesDoc == Obj(<<Member("name", Str(<<"npx">>, 2))>>)

TypedDoc == Obj(<<Member("mcpServers", Num)>>)

EmptyDoc == Obj(<<Member("mcpServers", Obj(<< >>))>>)

\* a JSON document that writes the secret of its server with an escape
EscapedDoc ==
  Obj(<<Member("mcpServers", Obj(<<
    Member("alpha", Obj(<<Member("command", Str(<<"npx">>, 3)),
                          Member("env", Obj(<<Member("OPENAI_API_KEY",
                                                     Quoted(EscapedKey, 5))>>))>>))>>))>>)

\* a server reached by a URL that carries the secret of its environment
RemoteDoc ==
  Obj(<<Member("mcpServers", Obj(<<
    Member("delta",
           Obj(<<Member("url", Str(<<"https:", "/", "/", "api.example.com", "/", "mcp",
                                     "/", GenericToken>>, 3)),
                 Member("env", Obj(<<Secret("API_KEY", GenericToken, 5)>>))>>))>>))>>)

\* a YAML document whose one server has keys that differ only by case
FoldedDoc ==
  Obj(<<Member("mcp_servers", Obj(<<
    Member("alpha", Obj(<<Member("command", Str(<<"npx">>, 3)),
                          Member("COMMAND", Str(<<"npx">>, 4))>>))>>))>>)

FileSystem ==
  { Text("d/claude.json", ".json", ClaudeDoc),
    Text("d/vscode.json", ".json", VSCodeDoc),
    File("d/broken.json", ".json", TRUE, FALSE, FALSE, NotesDoc),
    Text("d/.git/config.json", ".json", VSCodeDoc),
    Text("e/collide.json", ".json", CollideDoc),
    Text("e/nested.json", ".json", NestedCollideDoc),
    Text("e/duplicate.json", ".json", DuplicateDoc),
    Text("e/librechat.yaml", ".yaml", LibreChatDoc),
    Text("e/continue.yaml", ".yaml", ContinueDoc),
    Text("e/goose.yaml", ".yaml", GooseDoc),
    Text("e/folded.yaml", ".yaml", FoldedDoc),
    Text("e/duplicate.yaml", ".yaml", DuplicateDoc),
    Text("e/notes.json", ".json", NotesDoc),
    Text("e/typed.json", ".json", TypedDoc),
    Text("e/empty.json", ".json", EmptyDoc),
    Text("e/claude.txt", ".txt", ClaudeDoc),
    Text("e/escaped.json", ".json", EscapedDoc),
    Text("e/remote.json", ".json", RemoteDoc),
    File("e/locked.json", ".json", FALSE, FALSE, TRUE, ClaudeDoc),
    File("e/huge.json", ".json", TRUE, TRUE, TRUE, ClaudeDoc) }

Paths == {f.path : f \in FileSystem}

\* the file at a path, if there is one
FileAt(path) ==
  IF path \in Paths THEN CHOOSE f \in FileSystem : f.path = path
  ELSE [File(path, "", FALSE, FALSE, FALSE, Num) EXCEPT !.exists = FALSE]

\* the directories of the file system and the paths under each
Directories == {"d", ".git"}
Under(dir) ==
  CASE dir = "d" -> {"d/claude.json", "d/vscode.json", "d/broken.json", "d/.git/config.json"}
    [] OTHER -> {}

\* readFile: the error, if any
readFile(f) ==
  IF ~f.exists THEN "no such file or directory"
  ELSE IF ~f.open THEN "permission denied"
  ELSE IF f.large THEN "config file too large"
  ELSE ""

isJSONFile(f) == f.ext = ".json"
isYAMLFile(f) == f.ext \in {".yaml", ".yml"}
isJSONOrYAMLFile(f) == f.ext \in {".json", ".yaml", ".yml"}

\* a mapping with the same key twice, at any depth: yaml.Unmarshal's error
RECURSIVE HasDuplicateKeys(_)
HasDuplicateKeys(v) ==
  IF v.t = "obj"
    THEN \/ \E i, j \in 1..Len(v.m) : i < j /\ v.m[i].k = v.m[j].k
         \/ \E i \in 1..Len(v.m) : HasDuplicateKeys(v.m[i].v)
  ELSE IF v.t = "arr" THEN \E i \in 1..Len(v.e) : HasDuplicateKeys(v.e[i])
  ELSE FALSE

\* the error of decoding the text at all: unmarshal up to the target type
decodeErr(f) ==
  IF isJSONFile(f)
    THEN IF detectCaseInsensitiveKeyCollisions(f.text)
           THEN "case-insensitive key collision detected"
         ELSE IF ~f.text.syntax THEN "invalid character"
         ELSE ""
  ELSE IF isYAMLFile(f)
    THEN IF ~f.text.syntax \/ HasDuplicateKeys(f.text.doc) THEN "yaml: error" ELSE ""
  ELSE "unknown config file extension"

\* json.Unmarshal or yaml.Unmarshal into a map[string]interface{}, after e
genericOf(f, e) ==
  IF e # "" THEN [err |-> e, m |-> Obj(<< >>)]
  ELSE IF f.text.doc.t # "obj" THEN [err |-> "cannot unmarshal", m |-> Obj(<< >>)]
  ELSE [err |-> "", m |-> Decode(f.text.doc)]

\* unmarshal(path, content, &generic) with generic a map[string]interface{}
unmarshalGeneric(f) == genericOf(f, decodeErr(f))

hasKey(m, k) == \E i \in 1..Len(m.m) : m.m[i].k = k

RECURSIVE hasNested(_, _)
hasNested(cur, ks) ==
  IF ks = << >> THEN TRUE
  ELSE /\ cur.t = "obj"
       /\ hasKey(cur, Head(ks))
       /\ hasNested(LastOf(cur.m, Head(ks)), Tail(ks))

\* configDetectors: the kinds in the order of the registry, each with the
\* keys its predicate looks up and the keys its type decodes the servers from
configDetectors ==
  << [kind |-> "ClaudeConfigFile", match |-> <<"mcpServers">>, field |-> <<"mcpServers">>, yaml |-> <<"mcpservers">>],
     [kind |-> "VSCodeMCPConfig", match |-> <<"servers">>, field |-> <<"servers">>, yaml |-> <<"servers">>],
     [kind |-> "VSCodeConfigFile", match |-> <<"mcp", "servers">>, field |-> <<"mcp", "servers">>, yaml |-> <<"mcp", "servers">>],
     [kind |-> "ContinueConfigFile", match |-> <<"mcp">>, field |-> <<"mcp">>, yaml |-> <<"mcp">>],
     [kind |-> "GooseConfigFile", match |-> <<"mcp_servers">>, field |-> <<"mcp_servers">>, yaml |-> <<"mcp_servers">>],
     [kind |-> "LibreChatConfigFile", match |-> <<"mcp", "servers">>, field |-> <<"mcp", "servers">>, yaml |-> <<"mcp", "servers">>] >>

ConfigKinds == {configDetectors[i].kind : i \in 1..Len(configDetectors)}

\* the least of a set of indices, 0 when there is none
First(S) == IF S = {} THEN 0 ELSE CHOOSE i \in S : \A j \in S : i <= j

\* the first detector that matches, 0 when none does
chosen(m) ==
  First({i \in 1..Len(configDetectors) : hasNested(m, configDetectors[i].match)})

RECURSIVE Concat(_)
Concat(ss) == IF ss = << >> THEN << >> ELSE Head(ss) \o Concat(Tail(ss))

\* the values of the members that decode into the field of a struct: encoding/json
\* matches the key of the tag without regard to case, yaml.v3 exactly
FieldValues(m, field, fold) ==
  LET sel == SelectSeq(m, LAMBDA x : IF fold THEN ToLower(x.k) = ToLower(field)
                                              ELSE x.k = field)
  IN [i \in 1..Len(sel) |-> sel[i].v]

\* the values that decode into the servers field of the chosen type: every
\* occurrence of a field decodes into the same struct or map
RECURSIVE Gather(_, _, _)
Gather(vals, path, fold) ==
  IF \E i \in 1..Len(vals) : vals[i].t # "obj" THEN [err |-> TRUE, vals |-> << >>]
  ELSE IF path = << >> THEN [err |-> FALSE, vals |-> vals]
  ELSE Gather(Concat([i \in 1..Len(vals) |-> FieldValues(vals[i].m, Head(path), fold)]),
              Tail(path), fold)

\* the servers of the members gathered: each declaration is a map
decoded(members) ==
  IF \E i \in 1..Len(members) : members[i].v.t # "obj"
    THEN [err |-> "cannot unmarshal", servers |-> << >>]
    ELSE [err |-> "", servers |-> Decode(Obj(members)).m]

gathered(g) ==
  IF g.err THEN [err |-> "cannot unmarshal", servers |-> << >>]
  ELSE decoded(Concat([i \in 1..Len(g.vals) |-> g.vals[i].m]))

concreteOf(f, d, e) ==
  IF e # "" THEN [err |-> e, servers |-> << >>]
  ELSE gathered(Gather(<<f.text.doc>>, IF isJSONFile(f) THEN d.field ELSE d.yaml, isJSONFile(f)))

\* unmarshal(path, content, cfg) with cfg of the chosen type: the error and
\* the servers, each a member from its name to its declaration
unmarshalConcrete(f, d) == concreteOf(f, d, decodeErr(f))

validateConfig(server) == ~checkCaseInsensitiveKeysRecursive(server.v)

filterConfig(servers) == SelectSeq(servers, validateConfig)

\* TraverseServer over the servers of the file, in the order of the text (one of
\* the orders in which the map can be ranged over): the finding set
RECURSIVE TraverseServers(_, _, _, _)
TraverseServers(set, servers, filePath, doc) ==
  IF servers = << >> THEN set
  ELSE TraverseServers(AddLeaves(set, Head(servers).k, Leaves(Head(servers).v, << >>), filePath, doc),
                       Tail(servers), filePath, doc)

\* the valid servers redacted, and the findings of their strings
redacted(valid, f) ==
  [servers |-> [i \in 1..Len(valid) |-> Member(valid[i].k, Traverse(valid[i].v))],
   findings |-> ListSorted(TraverseServers(<< >>, valid, f.path, f.text.doc))]

\* findAndRedactSecrets: the servers written back to the config, and the
\* findings appended to the scan result
findAndRedactSecrets(servers, f) == redacted(filterConfig(servers), f)

NoConfig == [nil |-> TRUE, kind |-> "", servers |-> << >>]

\* return nil, err
Failed(err) == [cfg |-> NoConfig, err |-> err, findings |-> << >>]

\* return cfg, nil
Parsed(kind, red) ==
  [cfg |-> [nil |-> FALSE, kind |-> kind, servers |-> red.servers],
   err |-> "", findings |-> red.findings]

\* ParseMCPConfigFile, step 4: scan and redact
parseServers(f, kind, cfg) ==
  IF cfg.err # "" THEN Failed(cfg.err)
  ELSE IF Len(filterConfig(cfg.servers)) = 0 THEN Failed("")
  ELSE Parsed(kind, findAndRedactSecrets(cfg.servers, f))

\* ParseMCPConfigFile, step 3: unmarshal into the chosen type
parseConcrete(f, d) ==
  IF d = 0 THEN Failed("")
  ELSE parseServers(f, configDetectors[d].kind, unmarshalConcrete(f, configDetectors[d]))

\* ParseMCPConfigFile, step 2: detect the kind
parseDetect(f, generic) ==
  IF generic.err # "" THEN Failed("") ELSE parseConcrete(f, chosen(generic.m))

\* ParseMCPConfigFile, step 1: read and parse generically
parseGeneric(f, e) ==
  IF e # "" THEN Failed(e) ELSE parseDetect(f, unmarshalGeneric(f))

\* ParseMCPConfigFile: the config (nil or not), the error, and the findings
\* appended to the scan result
ParseMCPConfigFile(f) == parseGeneric(f, readFile(f))

ServerConfigs(servers) ==
  [i \in 1..Len(servers) |-> [Name |-> servers[i].k, Server |-> servers[i].v]]

\* the file result of a file parsed as p; kind is the type of the config that
\* was parsed, which the file result does not keep
fileResultOf(path, p) ==
  IF p.err # "" \/ p.cfg.nil
    THEN [fileResult |-> [Path |-> path, Servers |-> << >>, SecretFindings |-> << >>, Error |-> ""],
          err |-> p.err, findings |-> << >>, kind |-> ""]
    ELSE [fileResult |-> [Path |-> path,
                          Servers |-> ServerConfigs(filterConfig(p.cfg.servers)),
                          SecretFindings |-> p.findings, Error |-> ""],
          err |-> "", findings |-> p.findings, kind |-> p.cfg.kind]

\* scanFile, of a scanner without a ratings collector: the file result, the
\* error, and the findings appended to the scan result
scanFile(path) == fileResultOf(path, ParseMCPConfigFile(FileAt(path)))


(***************************************************************************)
(* MCPScanner.Scan, of a scanner with a streaming callback and without a   *)
(* ratings collector.  The targets are the arguments of the command.       *)
(***************************************************************************)
MaxTargets == 2

skipDirs == {".git"}

isSkippedDir(name) == name \in skipDirs

Targets == Paths \cup Directories \cup {"missing"}

\* os.Stat(target): "" for an error, else "dir" or "file"
Stat(target) ==
  IF target \in Directories THEN "dir"
  ELSE IF target \in Paths THEN "file"
  ELSE ""

\* the paths under root that lie in a directory the walk skips
InSkippedDir(path) == path = "d/.git/config.json"

\* streamConfigFiles(ctx, root): the paths the walk sends, in any order
streamConfigFiles(root) ==
  {p \in Under(root) : ~InSkippedDir(p) /\ isJSONOrYAMLFile(FileAt(p))}

\* the two calls of the streaming callback for a file scanned as r, the
\* second with the kind the file was parsed as
callbacksOf(filePath, r) ==
  << [path |-> filePath, started |-> TRUE, fileResult |-> "nil", err |-> "", kind |-> "",
      servers |-> 0],
     [path |-> filePath, started |-> FALSE, fileResult |-> r.fileResult.Path, err |-> r.err,
      kind |-> r.kind, servers |-> Len(r.fileResult.Servers)] >>

\* processFile that hands the error of a file to the caller of Scan
processed_Propagating(s, filePath, r) ==
  IF r.err # "" THEN [s EXCEPT !.pc = "returned", !.err = r.err]
  ELSE [s EXCEPT !.seenFiles = @ \cup {filePath},
                 !.events = @ \o callbacksOf(filePath, r),
                 !.SecretFindings = @ \o r.findings,
                 !.Files = Append(@, r.fileResult),
                 !.Servers = @ \o r.fileResult.Servers]

\* processFile(filePath), for a path not seen, scanned as r
processed(s, filePath, r) ==
  [s EXCEPT !.seenFiles = @ \cup {filePath},
            !.events = @ \o callbacksOf(filePath, r),
            !.SecretFindings = @ \o r.findings,
            !.Files = IF r.err # "" THEN @ ELSE Append(@, r.fileResult),
            !.Servers = IF r.err # "" THEN @ ELSE @ \o r.fileResult.Servers]

\* processFile without the set of seen paths
seenBefore_Never(s, filePath) == FALSE

\* the check of seenFiles at the head of processFile
seenBefore(s, filePath) == filePath \in s.seenFiles

processFile(s, filePath) ==
  IF seenBefore(s, filePath) THEN s ELSE processed(s, filePath, scanFile(filePath))

sidelined == <<pipeline, api, ident>>

\* Scan, up to the loop over the targets
ScanStart ==
  /\ mcp.pc = "new"
  /\ mcp' = [mcp EXCEPT !.Files = << >>, !.Servers = << >>, !.SecretFindings = << >>,
                        !.pc = "targets"]
  /\ UNCHANGED sidelined

\* the scanner after the turn of the loop for a target with status st
turned(s, target, st) ==
  IF st = "" \/ (st = "dir" /\ isSkippedDir(target))
    THEN [s EXCEPT !.target = @ + 1]
  ELSE IF st = "file"
    THEN [processFile(s, target) EXCEPT !.target = @ + 1]
  ELSE IF streamConfigFiles(target) = {}
    THEN [s EXCEPT !.target = @ + 1]
  ELSE [s EXCEPT !.walking = TRUE, !.stream = streamConfigFiles(target)]

\* one turn of the loop over the targets: a file is processed, the walk of a
\* directory is started
ScanTarget ==
  /\ mcp.pc = "targets"
  /\ ~mcp.walking
  /\ mcp.target <= Len(mcp.targets)
  /\ mcp' = turned(mcp, mcp.targets[mcp.target], Stat(mcp.targets[mcp.target]))
  /\ UNCHANGED sidelined

\* the scanner after a path of the walk, rest being the paths still to come
received(s, rest) ==
  [s EXCEPT !.stream = rest, !.walking = rest # {},
            !.target = IF rest = {} THEN @ + 1 ELSE @]

\* one path received from the walk; after the last the next target is turned to
ScanStreamed(p) ==
  /\ mcp.pc = "targets"
  /\ mcp.walking
  /\ p \in mcp.stream
  /\ mcp' = received(processFile(mcp, p), mcp.stream \ {p})
  /\ UNCHANGED sidelined

\* return s.ScanResult, nil
ScanReturn ==
  /\ mcp.pc = "targets"
  /\ mcp.target > Len(mcp.targets)
  /\ mcp' = [mcp EXCEPT !.pc = "returned", !.err = "",
                        !.returned = Append(@, [Files |-> mcp.Files,
                                                Servers |-> mcp.Servers])]
  /\ UNCHANGED sidelined

ScanNext ==
  \/ ScanStart
  \/ ScanTarget
  \/ \E p \in Paths : ScanStreamed(p)
  \/ ScanReturn

ScanTargets == UNION {[1..n -> Targets] : n \in 1..MaxTargets}

ScanInit ==
  /\ Collector(Scan)
  /\ poll = PollIdle
  /\ tui = TuiIdle
  /\ api = ApiIdle
  /\ ident = IdentIdle
  /\ \E targets \in ScanTargets : mcp = [McpIdle EXCEPT !.targets = targets, !.pc = "new"]

ScanSpec == ScanInit /\ [][ScanNext]_vars

(***************************************************************************)
(* Claims about the scan.                                                  *)
(***************************************************************************)
\* the per-file failure of a path, "" when there is none: it cannot be read,
\* its text cannot be decoded, or no kind matches it
Failure(path) ==
  IF readFile(FileAt(path)) # "" THEN readFile(FileAt(path))
  ELSE IF decodeErr(FileAt(path)) # "" THEN decodeErr(FileAt(path))
  ELSE IF chosen(Decode(FileAt(path).text.doc)) = 0 THEN "unknown config kind"
  ELSE ""

\* the indices of the file results of a path
ResultsOf(path) == {i \in 1..Len(mcp.Files) : mcp.Files[i].Path = path}

\* the calls of the streaming callback for a path, started or finished
EventsOf(path, started) ==
  {i \in 1..Len(mcp.events) : mcp.events[i].path = path /\ mcp.events[i].started = started}

\* every file of every target has been processed
AllProcessed ==
  \A i \in 1..Len(mcp.targets) :
    /\ Stat(mcp.targets[i]) = "file" => mcp.targets[i] \in mcp.seenFiles
    /\ Stat(mcp.targets[i]) = "dir" /\ ~isSkippedDir(mcp.targets[i])
         => streamConfigFiles(mcp.targets[i]) \subseteq mcp.seenFiles

\* C24 as stated: Scan returns no error, every file that failed has a file
\* result in the aggregate that carries the failure, and all files of all
\* targets are processed.
C24_FailureRecorded_Original ==
  mcp.pc = "returned" =>
    /\ mcp.err = ""
    /\ AllProcessed
    /\ \A p \in mcp.seenFiles :
         Failure(p) # "" => \E i \in ResultsOf(p) : mcp.Files[i].Error # ""

\* C24 amended: Scan returns no error and processes all files of all
\* targets; a file that cannot be read has no file result at all (its error
\* goes to the streaming callback only), a file that cannot be decoded or
\* classified has one file result with its path alone, no servers, no
\* findings and no error; a failed file adds no finding to the aggregate.
C24_FailureSkipped ==
  mcp.pc = "returned" =>
    /\ mcp.err = ""
    /\ AllProcessed
    /\ \A p \in mcp.seenFiles :
         Failure(p) # "" =>
           /\ \A i \in 1..Len(mcp.SecretFindings) : mcp.SecretFindings[i].File # p
           /\ \A i \in ResultsOf(p) :
                mcp.Files[i] = [Path |-> p, Servers |-> << >>,
                                SecretFindings |-> << >>, Error |-> ""]
           /\ IF readFile(FileAt(p)) # ""
                THEN /\ ResultsOf(p) = {}
                     /\ \E i \in EventsOf(p, FALSE) : mcp.events[i].err = Failure(p)
                ELSE /\ Cardinality(ResultsOf(p)) = 1
                     /\ \A i \in EventsOf(p, FALSE) : mcp.events[i].err = ""

\* a scan has returned whose first target failed and whose second gave servers
C24_Witness ==
  /\ mcp.pc = "returned"
  /\ Len(mcp.targets) = 2
  /\ mcp.targets[1] \in mcp.seenFiles
  /\ Failure(mcp.targets[1]) # ""
  /\ \E i \in ResultsOf(mcp.targets[2]) : Len(mcp.Files[i].Servers) > 0

\* C25: in a scan a path has at most one started event, at most one finished
\* event and at most one file result, also when several targets reach it.
C25_ProcessedOnce ==
  \A p \in Paths :
    /\ Cardinality(EventsOf(p, TRUE)) <= 1
    /\ Cardinality(EventsOf(p, FALSE)) <= 1
    /\ Cardinality(ResultsOf(p)) <= 1
    /\ p \in mcp.seenFiles <=> EventsOf(p, TRUE) # {}

\* a scan has returned in which a directory and a later target reach one file
C25_Witness ==
  /\ mcp.pc = "returned"
  /\ Len(mcp.targets) = 2
  /\ Stat(mcp.targets[1]) = "dir"
  /\ mcp.targets[2] \in streamConfigFiles(mcp.targets[1])
  /\ Cardinality(ResultsOf(mcp.targets[2])) = 1

\* two keys of one object of the value, at any depth, have one lower-case form
RECURSIVE TwoKeysAlike(_)
TwoKeysAlike(v) ==
  IF v.t = "obj"
    THEN \/ \E i, j \in 1..Len(v.m) : i < j /\ ToLower(v.m[i].k) = ToLower(v.m[j].k)
         \/ \E i \in 1..Len(v.m) : TwoKeysAlike(v.m[i].v)
  ELSE IF v.t = "arr" THEN \E i \in 1..Len(v.e) : TwoKeysAlike(v.e[i])
  ELSE FALSE

\* C26: a JSON file in which two keys of one object have identical lower-case
\* forms fails to parse: it gives no server and no secret finding.
C26_CollisionFailsParsing ==
  \A p \in mcp.seenFiles :
    /\ isJSONFile(FileAt(p))
    /\ readFile(FileAt(p)) = ""
    /\ FileAt(p).text.syntax
    /\ TwoKeysAlike(FileAt(p).text.doc)
    => /\ \A i \in ResultsOf(p) :
            mcp.Files[i].Servers = << >> /\ mcp.Files[i].SecretFindings = << >>
       /\ \A i \in 1..Len(mcp.SecretFindings) : mcp.SecretFindings[i].File # p
       /\ \A i \in EventsOf(p, FALSE) : mcp.events[i].kind = ""

\* the raw value of a finding: the value its hash was taken of
RawOf(f) == Tail(f.ValueHash)

\* the strings of the server declarations of the result
ServerStrings ==
  UNION {{l.s : l \in {Leaves(mcp.Servers[i].Server, << >>)[j] :
                         j \in 1..Len(Leaves(mcp.Servers[i].Server, << >>))}} :
         i \in 1..Len(mcp.Servers)}

\* C27: the raw value of a detected secret occurs in no string of a server
\* declaration of the result and not in the redacted value of its finding,
\* which differs from it.
C27_NoRawSecret ==
  \A i \in 1..Len(mcp.SecretFindings) :
    /\ mcp.SecretFindings[i].Value # RawOf(mcp.SecretFindings[i])
    /\ ~Contains(mcp.SecretFindings[i].Value, RawOf(mcp.SecretFindings[i]))
    /\ \A s \in ServerStrings : ~Contains(s, RawOf(mcp.SecretFindings[i]))

\* the line numbers are ascending without a duplicate
StrictlyAscending(lines) == \A i \in 1..(Len(lines) - 1) : lines[i] < lines[i + 1]

\* C28: no two findings of a scan result have the same value_hash, and the
\* lines of every finding are sorted and free of duplicates.
C28_OneFindingPerHash ==
  /\ \A i, j \in 1..Len(mcp.SecretFindings) :
       i # j => mcp.SecretFindings[i].ValueHash # mcp.SecretFindings[j].ValueHash
  /\ \A i \in 1..Len(mcp.SecretFindings) : StrictlyAscending(mcp.SecretFindings[i].Lines)

\* C29: a LibreChat document with servers at mcp.servers is parsed as a
\* LibreChatConfigFile.
C29_LibreChatClassified ==
  \A i \in 1..Len(mcp.events) :
    /\ ~mcp.events[i].started
    /\ FileAt(mcp.events[i].path).text.doc = LibreChatDoc
    => mcp.events[i].kind = "LibreChatConfigFile"

(***************************************************************************)
(* URL identifiers.  A raw URL is a sequence of tokens, each a run of      *)
(* characters that url.Parse takes as a whole: "https:", "/", a name,      *)
(* "?", "#", a space, and "%zz", which is no valid escape.                 *)
(***************************************************************************)
MaxPath == 3

\* strings.TrimSpace
RECURSIVE TrimLeft(_)
TrimLeft(s) == IF s # << >> /\ Head(s) = " " THEN TrimLeft(Tail(s)) ELSE s

RECURSIVE TrimRight(_)
TrimRight(s) ==
  IF s # << >> /\ s[Len(s)] = " " THEN TrimRight(SubSeq(s, 1, Len(s) - 1)) ELSE s

TrimSpace(s) == TrimRight(TrimLeft(s))

\* strings.Index: the first position of the token, 0 when it is not there
IndexOf(s, tok) == First({i \in 1..Len(s) : s[i] = tok})

\* strings.Cut(s, tok): what is before the first tok, what is after, and
\* whether tok is there
CutAt(s, i) ==
  IF i = 0 THEN [before |-> s, after |-> << >>, found |-> FALSE]
  ELSE [before |-> SubSeq(s, 1, i - 1), after |-> SubSeq(s, i + 1, Len(s)), found |-> TRUE]

Cut(s, tok) == CutAt(s, IndexOf(s, tok))

\* the authority and the path of what follows "//"
Authority(rest, c) ==
  [Host |-> c.before, Path |-> IF c.found THEN <<"/">> \o c.after ELSE << >>]

\* url.Parse after the scheme: "//" starts an authority that ends at the
\* next "/"; a space in the host and an invalid escape are errors
parseRest(scheme, rest, q, frag) ==
  LET hasHost == Len(rest) >= 2 /\ rest[1] = "/" /\ rest[2] = "/"
      a == IF hasHost THEN Authority(SubSeq(rest, 3, Len(rest)), Cut(SubSeq(rest, 3, Len(rest)), "/"))
           ELSE [Host |-> << >>, Path |-> rest]
  IN [err |-> \/ \E i \in 1..Len(a.Host) : a.Host[i] \in {" ", "%zz"}
              \/ \E i \in 1..Len(a.Path) : a.Path[i] = "%zz",
      Scheme |-> scheme, Host |-> a.Host, Path |-> a.Path,
      ForceQuery |-> q.found /\ q.after = << >>, RawQuery |-> q.after,
      Fragment |-> frag.after]

\* url.Parse after the fragment and the query are cut off: the scheme
parseScheme(rest, q, frag) ==
  IF rest # << >> /\ Head(rest) = "https:"
    THEN parseRest("https", Tail(rest), q, frag)
    ELSE parseRest("", rest, q, frag)

parseQuery(frag) == parseScheme(Cut(frag.before, "?").before, Cut(frag.before, "?"), frag)

\* url.Parse
Parse(raw) == parseQuery(Cut(raw, "#"))

\* strings.TrimSuffix(path, "/")
TrimSuffix(path) ==
  IF path # << >> /\ path[Len(path)] = "/" THEN SubSeq(path, 1, Len(path) - 1) ELSE path

\* URL.String of a URL with a scheme and a host
String(u) ==
  <<u.Scheme \o ":", "/", "/">> \o u.Host \o u.Path
  \o (IF u.ForceQuery \/ u.RawQuery # << >> THEN <<"?">> \o u.RawQuery ELSE << >>)
  \o (IF u.Fragment # << >> THEN <<"#">> \o u.Fragment ELSE << >>)

normalized(parsed) ==
  IF parsed.err \/ parsed.Scheme = "" \/ parsed.Host = << >> THEN << >>
  ELSE String([parsed EXCEPT !.Fragment = << >>, !.RawQuery = << >>,
                             !.Path = TrimSuffix(parsed.Path)])

normalizeURL(raw) == normalized(Parse(TrimSpace(raw)))

\* getString(cfg, key), of a key whose value is a string
getString(cfg, key) == TrimSpace(cfg[key])

\* the first of url, endpoint and baseUrl that has a normal form
RECURSIVE firstURL(_, _)
firstURL(cfg, keys) ==
  IF keys = << >> THEN << >>
  ELSE IF getString(cfg, Head(keys)) # << >> /\ normalizeURL(getString(cfg, Head(keys))) # << >>
    THEN <<[Kind |-> "url", Value |-> normalizeURL(getString(cfg, Head(keys)))]>>
  ELSE firstURL(cfg, Tail(keys))

\* dedupeIdentifiers
RECURSIVE dedupeIdentifiers(_)
dedupeIdentifiers(in) ==
  IF in = << >> THEN << >>
  ELSE LET rest == dedupeIdentifiers(SubSeq(in, 1, Len(in) - 1))
           ti == in[Len(in)]
       IN IF ti.Value = << >> \/ \E i \in 1..Len(rest) : rest[i] = ti THEN rest
          ELSE Append(rest, ti)

\* the raw URLs: padding, scheme, authority, path, query and fragment, each
\* there or not
Pads == {<< >>, <<" ">>}
Schemes == {<< >>, <<"https:">>}
Authorities == {<< >>, <<"/", "/", "api.example.com">>}
PathsOfURL == UNION {[1..n -> {"/", "mcp", "%zz"}] : n \in 0..MaxPath}
Queries == {<< >>, <<"?">>, <<"?", "q=1">>}
Fragments == {<< >>, <<"#">>, <<"#", "top">>}

RawURLs ==
  {pad \o s \o a \o p \o q \o f \o pad :
     pad \in Pads, s \in Schemes, a \in Authorities, p \in PathsOfURL,
     q \in Queries, f \in Fragments}

\* the values the other two keys take
OtherURLs == {<< >>, <<"https:", "/", "/", "api.example.com", "/", "mcp", "/">>}

\* ExtractIdentifiers(serverName, serverConfig) for a server that has the URL
\* keys only, a name that hints at no repository and a host that is no forge:
\* the other heuristics find nothing
ExtractIdentifiers ==
  /\ ident.pc = "new"
  /\ ident' = [ident EXCEPT !.out = dedupeIdentifiers(firstURL(ident.cfg, <<"url", "endpoint", "baseUrl">>)),
                            !.pc = "done"]
  /\ UNCHANGED <<pipeline, api, mcp>>

UrlNext == ExtractIdentifiers

UrlInit ==
  /\ Collector(Scan)
  /\ poll = PollIdle
  /\ tui = TuiIdle
  /\ api = ApiIdle
  /\ mcp = McpIdle
  /\ \E u \in RawURLs : \E e, b \in OtherURLs :
       ident = [cfg |-> [url |-> u, endpoint |-> e, baseUrl |-> b], out |-> << >>, pc |-> "new"]

UrlSpec == UrlInit /\ [][UrlNext]_vars

\* C30: every emitted url identifier has an empty query, an empty fragment
\* and a path that is empty or does not end in "/".
C30_UrlNormalized ==
  \A i \in 1..Len(ident.out) :
    ident.out[i].Kind = "url" =>
      /\ Parse(ident.out[i].Value).RawQuery = << >>
      /\ Parse(ident.out[i].Value).Fragment = << >>
      /\ \/ Parse(ident.out[i].Value).Path = << >>
         \/ Parse(ident.out[i].Value).Path[Len(Parse(ident.out[i].Value).Path)] # "/"

(***************************************************************************)
(* Properties of the shutdown, the notifications and the timer.            *)
(***************************************************************************)

\* C31: shutdown waits for the pollers: when FlushAndStop has returned, no
\* pollAndApply goroutine started for a 202 response is still running.
C31_StopWaitsForPollers ==
  \A i \in 1..MaxStops : stops[i] = "returned" => pollers = {}

\* the scan command without --tui: s.Scan() has submitted every declaration,
\* rc.ApplyToSummary(&summary) has filled the summary and rc.FlushAndStop()
\* has returned; scanner.PrintSummary(summary, jsonOutput) prints the summary
Printing ==
  /\ hist.summaryAt = "scanned"
  /\ stops[1] = "returned"

\* C32: in the scan command without --tui the printed summary reflects the
\* collector state reached after all batches were flushed and handled: a
\* policy set by the answer to a batch that is flushed only at shutdown
\* (pending after a 202) is in the summary that is printed.
C32_PrintedAfterFlush ==
  Printing =>
    \A s \in Servers :
      serverPolicy[s] # NoPolicy => summary[s].LocalPolicy = serverPolicy[s]

\* C34: after "allowlist add server NAME HASH" has persisted its entry, a
\* later Submit of the server named NAME treats it as locally allowlisted:
\* its policy becomes allowed and no identifier is emitted for it.
C34_AddedNameAllowlisted ==
  [][\A n \in 1..Len(AllowlistAdds) :
       (Submit /\ AllowlistAdds[n].entityType = "server"
               /\ scenario.work[next].name = AllowlistAdds[n].name) =>
         /\ serverPolicy'[AllowlistAdds[n].name] = "allowed"
         /\ curBatch' = curBatch
         /\ sendCh' = sendCh
         /\ idToServers' = idToServers]_vars

\* the batch holds an identifier that was submitted for the server
Covers(batch, s) ==
  \E i \in 1..Len(batch) : s \in Range(idToServers[makeKey(batch[i])])

\* C33: a "received" notification is emitted for a server only when an
\* answer (a 200 answer to a batch, or a completed scan) covers a batch that
\* holds one of the server's identifiers: the completion of the scan of one
\* batch emits no "received" for a server whose identifiers are only in
\* other batches.
C33_ReceivedOnlyForCovered ==
  [][\A s \in Servers :
       notified'["received"][s] > notified["received"][s] =>
         \/ \E w \in 1..workerCount :
              /\ workers[w].pc = "received"
              /\ workers'[w].pc = "recv"
              /\ Covers(workers[w].batch, s)
         \/ \E batch \in pollers \ pollers' : Covers(batch, s)]_vars

\* the timers of the collector that the runtime will fire
ArmedTimers == (IF timer.armed THEN 1 ELSE 0) + timer.stale

\* C39: at every moment at most one debounce timer is armed for a
\* collector: Submit re-arms the timer it has rather than making a second
\* one, for any sequence of Submit, timer firings and FlushAndStop.
C39_OneTimerArmed == ArmedTimers <= 1

\* a Submit that followed another Submit and a FlushAndStop has armed the
\* timer
C39_Witness ==
  /\ ArmedTimers = 1
  /\ timer.set
  /\ stops[1] # "idle"
  /\ next > 2

\* C38: every read and every write of the collector's shared state (seen,
\* the pending batch, idToServers, serverPolicy, serverLinks, serverRating,
\* the timer handle) is made while rc.mu is held, the reads of the workers
\* that emit notifications included: no access to the map rc.idToServers
\* overlaps an assignment to it, so the runtime never reports one.
C38_AccessUnderMutex == panicked # "concurrent map read and map write"

(***************************************************************************)
(* Scan called again on the scanner it has returned from, as the loop of   *)
(* BenchmarkMCPScanner_Scan does: the aggregate is reset and the loop over *)
(* the targets starts over; s.seenFiles is made by NewMCPScanner only and  *)
(* is left as the earlier calls filled it.  mcp.returned keeps the files   *)
(* and servers every call returned.                                        *)
(***************************************************************************)
MaxRuns == 2         \* calls of Scan on one scanner

ScanAgain ==
  /\ mcp.pc = "returned"
  /\ Len(mcp.returned) < MaxRuns
  /\ mcp' = [mcp EXCEPT !.Files = << >>, !.Servers = << >>, !.SecretFindings = << >>,
                        !.target = 1, !.pc = "targets"]
  /\ UNCHANGED sidelined

RescanNext ==
  \/ ScanStart
  \/ ScanTarget
  \/ \E p \in Paths : ScanStreamed(p)
  \/ ScanReturn
  \/ ScanAgain

RescanSpec == ScanInit /\ [][RescanNext]_vars

\* C36: a second call of Scan on the same scanner, with the same unchanged
\* targets, yields the same files and servers as the first call.
C36_SecondScanSame ==
  \A n \in 2..Len(mcp.returned) : mcp.returned[n] = mcp.returned[1]

(***************************************************************************)
(* The terminal interface (internal/tui): Run seeds fileCh with a started  *)
(* message for every file target, the streaming callback of the scanner    *)
(* (handleFileCallback) sends the messages of every file, and              *)
(* runScanAndFinalize sends the sentinel after Scan and FlushAndStop have  *)
(* returned.  fileCh is buffered (channelBufferSize) and holds more        *)
(* messages than a scan of the model sends, so no send blocks; the model   *)
(* receives the messages one by one, in the order they were sent.          *)
(***************************************************************************)
scanningViewportLines == 3

fileScanMsg(path, found, err, complete) ==
  [Path |-> path, Found |-> found, Err |-> err, Complete |-> complete]

\* seedInitialFileEvents(fileCh, configPaths)
RECURSIVE seedInitialFileEvents(_)
seedInitialFileEvents(configPaths) ==
  IF configPaths = << >> THEN << >>
  ELSE (IF Stat(Head(configPaths)) = "file"
          THEN <<fileScanMsg(Head(configPaths), FALSE, "", FALSE)>> ELSE << >>)
       \o seedInitialFileEvents(Tail(configPaths))

\* handleFileCallback, for one call ev of the streaming callback: the
\* messages it sends on fileCh
handleFileCallback(ev) ==
  IF ev.err # ""
    THEN <<fileScanMsg(ev.path, FALSE, "", FALSE), fileScanMsg(ev.path, FALSE, ev.err, TRUE)>>
  ELSE IF ev.started
    THEN <<fileScanMsg(ev.path, FALSE, "", FALSE)>>
  ELSE <<fileScanMsg(ev.path, FALSE, "", FALSE), fileScanMsg(ev.path, ev.servers > 0, "", TRUE)>>

RECURSIVE streamed(_)
streamed(events) ==
  IF events = << >> THEN << >>
  ELSE handleFileCallback(Head(events)) \o streamed(Tail(events))

\* runScanAndFinalize: the sentinel, once Scan has returned
runScanAndFinalize(s) ==
  IF s.pc = "returned" THEN <<fileScanMsg("", FALSE, "", TRUE)>> ELSE << >>

\* every message sent on fileCh so far
fileCh == seedInitialFileEvents(mcp.targets) \o streamed(mcp.events) \o runScanAndFinalize(mcp)

\* the last n elements of the sequence
LastN(q, n) == IF Len(q) > n THEN SubSeq(q, Len(q) - n + 1, Len(q)) ELSE q

\* the model after a message with a path, or without Complete, when total
\* files were seen started and scanned were seen complete
counted(m, x, total, scanned) ==
  [m EXCEPT !.fileScanEvents = LastN(Append(@, x), scanningViewportLines * 3),
            !.seenStarts = IF ~x.Complete /\ x.Path # "" THEN @ \cup {x.Path} ELSE @,
            !.totalFiles = total,
            !.filesScanned = scanned,
            !.scanCompleted = IF total > 0 /\ scanned >= total THEN TRUE ELSE @,
            !.taken = @ + 1]

\* Model.Update(msg) for a fileScanMsg x
Update(m, x) ==
  IF x.Path = "" /\ x.Complete
    THEN [m EXCEPT !.scanCompleted = TRUE, !.taken = @ + 1]
    ELSE counted(m, x,
                 IF ~x.Complete /\ x.Path # "" /\ x.Path \notin m.seenStarts
                   THEN m.totalFiles + 1 ELSE m.totalFiles,
                 IF x.Complete THEN m.filesScanned + 1 ELSE m.filesScanned)

\* the program receives the next message of fileCh and updates the model
TuiUpdate ==
  /\ tui.pc = "running"
  /\ tui.taken < Len(fileCh)
  /\ tui' = Update(tui, fileCh[tui.taken + 1])
  /\ UNCHANGED <<collector, poll, cancelled, api, mcp, ident>>

TuiNext ==
  \/ ScanStart
  \/ ScanTarget
  \/ \E p \in Paths : ScanStreamed(p)
  \/ ScanReturn
  \/ TuiUpdate

TuiInit ==
  /\ Collector(Scan)
  /\ poll = PollIdle
  /\ api = ApiIdle
  /\ ident = IdentIdle
  /\ tui = [TuiIdle EXCEPT !.pc = "running"]
  /\ \E targets \in ScanTargets : mcp = [McpIdle EXCEPT !.targets = targets, !.pc = "new"]

TuiSpec == TuiInit /\ [][TuiNext]_vars

\* every Complete message of a file sent so far has been received
AllReported ==
  \A i \in 1..Len(fileCh) :
    (fileCh[i].Complete /\ fileCh[i].Path # "") => i <= tui.taken

\* C37: the model enters the completed (results) state only after every
\* file the scanner processes has reported completion: while files remain
\* to be scanned (the first of several files found in the walk of a
\* directory has just finished) the model is not completed; and once
\* completed it never returns to the scanning state.
C37_CompletedAfterAllFiles ==
  /\ [](tui.scanCompleted => (AllProcessed /\ AllReported))
  /\ [][tui.scanCompleted => tui'.scanCompleted]_vars

(***************************************************************************)
(* Claims about the occurrences of the findings and about what the scan    *)
(* hands to the collector.                                                 *)
(***************************************************************************)
\* the text of the line of the file holds the raw value
LineHolds(path, line, raw) ==
  \E i \in 1..Len(Leaves(FileAt(path).text.doc, << >>)) :
    /\ Leaves(FileAt(path).text.doc, << >>)[i].line = line
    /\ Contains(Leaves(FileAt(path).text.doc, << >>)[i].text, raw)

\* C40: every line number recorded in the occurrences of a finding is at
\* least 1 and is the 1-based number of a line of the scanned file that
\* contains the raw secret as a substring.
C40_LinesHoldSecret ==
  \A i \in 1..Len(mcp.SecretFindings) :
    \A n \in 1..Len(mcp.SecretFindings[i].Lines) :
      /\ mcp.SecretFindings[i].Lines[n] >= 1
      /\ LineHolds(mcp.SecretFindings[i].File, mcp.SecretFindings[i].Lines[n],
                   RawOf(mcp.SecretFindings[i]))

\* the string of key k of a server declaration, "" when the key is absent or
\* its value is no string
stringAt(server, k) ==
  IF server.t = "obj" /\ \E i \in 1..Len(server.m) : server.m[i].k = k
    THEN IF LastOf(server.m, k).t = "str" THEN LastOf(server.m, k).s ELSE << >>
    ELSE << >>

\* the identifiers ExtractIdentifiers gives for a server declaration whose
\* command, arguments, name and host show no package, image or repository:
\* the first of url, endpoint and baseUrl that has a normal form
extractedFrom(server) ==
  dedupeIdentifiers(
    firstURL([url |-> stringAt(server, "url"), endpoint |-> stringAt(server, "endpoint"),
              baseUrl |-> stringAt(server, "baseUrl")],
             <<"url", "endpoint", "baseUrl">>))

\* scanFile with a ratings collector: s.collector.Submit(name, serverData) for
\* every server of the file result, which puts the identifiers extracted from
\* serverData in the pending batch (SubmitIds)
submitted(fileResult) ==
  [i \in 1..Len(fileResult.Servers) |->
     Decl(fileResult.Servers[i].Name, extractedFrom(fileResult.Servers[i].Server))]

\* C35: server declarations reach the collector only after the redaction of
\* secrets, so no identifier that is put in a batch or sent to the ratings
\* API contains the raw value of a secret detected in the file of its server.
C35_NoSecretInIdentifiers ==
  \A n \in 1..Len(mcp.Files) :
    \A i \in 1..Len(mcp.Files[n].Servers) :
      \A j \in 1..Len(submitted(mcp.Files[n])[i].ids) :
        \A f \in 1..Len(mcp.SecretFindings) :
          mcp.SecretFindings[f].File = mcp.Files[n].Path =>
            ~Contains(submitted(mcp.Files[n])[i].ids[j].Value,
                      RawOf(mcp.SecretFindings[f]))

====
